---- MODULE Spec2Model ----
(***************************************************************************)
(* The upgradeable BPF loader of pkg/sealevel/bpf_loader.go as a state     *)
(* machine over a small ledger of accounts.  Account data are byte         *)
(* sequences with the loader's real header layout (4-byte tag, 37-, 36-    *)
(* and 45-byte headers, 32-byte keys); the handlers are operators from     *)
(* (accounts, instruction) to (error, accounts) that follow the Go code    *)
(* statement by statement.                                                 *)
(*                                                                         *)
(* Integers: TLC's integers are 32 bit, so the uint64 range of lamports,   *)
(* lengths and offsets is represented by 0..U64Max and the uint32 range    *)
(* of a Write offset by 0..U32Max, with U32Max + header + payload far      *)
(* below U64Max as 2^32 is far below 2^64.                                 *)
(***************************************************************************)
EXTENDS Integers, Sequences, FiniteSets, TLC

\* ------------------------------------------------------------------ bounds

\* Largest value of the model's "uint64" (math.MaxUint64 in the program).
U64Max == 65535
\* Largest value of the model's "uint32" (math.MaxUint32 in the program).
U32Max == 4095
\* Payload bytes that follow the 37-byte header of the staging buffer "buf".
MaxPayload == 2
\* The clock sysvar's slot runs over 0..MaxSlot.
MaxSlot == 1

\* --------------------------------------------------------------- constants

UpgradeableLoaderInstrTypeInitializeBuffer == 0
UpgradeableLoaderInstrTypeWrite == 1
UpgradeableLoaderInstrTypeDeployWithMaxDataLen == 2
UpgradeableLoaderInstrTypeUpgrade == 3

UpgradeableLoaderStateTypeUninitialized == 0
UpgradeableLoaderStateTypeBuffer == 1
UpgradeableLoaderStateTypeProgram == 2
UpgradeableLoaderStateTypeProgramData == 3

upgradeableLoaderSizeOfBufferMetaData == 37
upgradeableLoaderSizeOfProgram == 36
upgradeableLoaderSizeOfProgramDataMetaData == 45

\* solana.PublicKeyLength
PublicKeyLength == 32
\* MaxPermittedDataLength (10 MiB in the runtime): above every length the
\* model's uint64 range can hold, as it is far above the lengths used here.
MaxPermittedDataLength == 10485760

\* Slots between the lowest and the highest slot of the blockstore's meta
\* table: verify-data ranges over 1..MaxTotal slots.
MaxTotal == 6
\* The --workers flag of verify-data runs over 1..MaxWorkers.
MaxWorkers == 4
\* The stats goroutine of verify-data logs at most MaxTicks times.
MaxTicks == 1

\* ------------------------------------------------------------------ errors

InstrOK == "OK"
InstrErrInvalidAccountData == "InvalidAccountData"
InstrErrInvalidArgument == "InvalidArgument"
InstrErrInvalidInstructionData == "InvalidInstructionData"
InstrErrAccountDataTooSmall == "AccountDataTooSmall"
InstrErrAccountAlreadyInitialized == "AccountAlreadyInitialized"
InstrErrImmutable == "Immutable"
InstrErrIncorrectAuthority == "IncorrectAuthority"
InstrErrIncorrectProgramId == "IncorrectProgramId"
InstrErrMissingRequiredSignature == "MissingRequiredSignature"
InstrErrAccountNotExecutable == "AccountNotExecutable"
InstrErrExecutableAccountNotRentExempt == "ExecutableAccountNotRentExempt"
InstrErrInsufficientFunds == "InsufficientFunds"
InstrErrNotEnoughAccountKeys == "NotEnoughAccountKeys"
InstrErrArithmeticOverflow == "ArithmeticOverflow"
InstrErrUnsupportedProgramId == "UnsupportedProgramId"
\* A Go runtime panic (nil dereference, slice bounds): the handler does not return.
GoPanic == "panic"
InstrErrComputationalBudgetExceeded == "ComputationalBudgetExceeded"

\* -------------------------------------------------------------------- keys

\* A 32-byte public key; the model's keys are filled with one byte value.
PublicKey(b) == [i \in 1..PublicKeyLength |-> b]
\* A nil *solana.PublicKey.
NilKey == << >>
\* The zero value of solana.PublicKey.
ZeroKey == PublicKey(0)

Zeros(n) == [i \in 1..n |-> 0]

\* ---------------------------------------------------------------- safemath

SaturatingAddU64(a, b) == IF a > U64Max - b THEN U64Max ELSE a + b

SaturatingSubU64(a, b) == IF a < b THEN 0 ELSE a - b

upgradeableLoaderSizeOfProgramData(programLen) ==
  SaturatingAddU64(upgradeableLoaderSizeOfProgramDataMetaData, programLen)

upgradeableLoaderSizeOfBuffer(programLen) ==
  SaturatingAddU64(upgradeableLoaderSizeOfBufferMetaData, programLen)

\* ------------------------------------------------- bin.Decoder, bin.Encoder

RECURSIVE LittleEndian(_)
\* The unsigned integer a little-endian byte sequence denotes.
LittleEndian(bytes) ==
  IF bytes = << >> THEN 0 ELSE Head(bytes) + 256 * LittleEndian(Tail(bytes))

RECURSIVE LittleEndianBytes(_, _)
\* The n-byte little-endian encoding of v.
LittleEndianBytes(v, n) ==
  IF n = 0 THEN << >> ELSE <<v % 256>> \o LittleEndianBytes(v \div 256, n - 1)

\* decoder.ReadBytes(n): the next n bytes, or an error when fewer remain.
ReadBytes(data, pos, n) ==
  IF Len(data) - pos < n
  THEN [ok |-> FALSE, val |-> << >>, pos |-> pos]
  ELSE [ok |-> TRUE, val |-> SubSeq(data, pos + 1, pos + n), pos |-> pos + n]

\* decoder.ReadUint32(bin.LE)
ReadUint32(data, pos) ==
  LET r == ReadBytes(data, pos, 4)
  IN  [ok |-> r.ok, val |-> LittleEndian(r.val), pos |-> r.pos]

\* decoder.ReadUint64(bin.LE)
ReadUint64(data, pos) ==
  LET r == ReadBytes(data, pos, 8)
  IN  [ok |-> r.ok, val |-> LittleEndian(r.val), pos |-> r.pos]

\* decoder.ReadBool(): one byte, true when it is not zero.
ReadBool(data, pos) ==
  LET r == ReadBytes(data, pos, 1)
  IN  [ok |-> r.ok, val |-> r.ok /\ r.val[1] # 0, pos |-> r.pos]

\* encoder.WriteUint64(v, bin.LE)
WriteUint64(v) == LittleEndianBytes(v, 8)

\* ------------------------------------------------- UpgradeableLoaderState

\* new(UpgradeableLoaderState): every variant's fields at their zero value.
NewUpgradeableLoaderState ==
  [Type |-> 0,
   Buffer |-> [AuthorityAddress |-> NilKey],
   Program |-> [ProgramDataAddress |-> ZeroKey],
   ProgramData |-> [Slot |-> 0, UpgradeAuthorityAddress |-> NilKey]]

\* (*UpgradeableLoaderStateBuffer).UnmarshalWithDecoder
BufferUnmarshalWithDecoder(state, data, pos) ==
  LET hasPubkey == ReadBool(data, pos)
      pkBytes == ReadBytes(data, hasPubkey.pos, PublicKeyLength)
  IN  IF ~hasPubkey.ok THEN [ok |-> FALSE, state |-> state]
      ELSE IF hasPubkey.val
      THEN IF ~pkBytes.ok THEN [ok |-> FALSE, state |-> state]
           ELSE [ok |-> TRUE,
                 state |-> [state EXCEPT !.Buffer.AuthorityAddress = pkBytes.val]]
      ELSE [ok |-> TRUE, state |-> state]

\* (*UpgradeableLoaderStateBuffer).MarshalWithEncoder
BufferMarshalWithEncoder(buffer) ==
  IF buffer.AuthorityAddress # NilKey THEN buffer.AuthorityAddress ELSE << >>

\* (*UpgradeableLoaderStateProgram).UnmarshalWithDecoder
ProgramUnmarshalWithDecoder(state, data, pos) ==
  LET pkBytes == ReadBytes(data, pos, PublicKeyLength)
  IN  IF ~pkBytes.ok THEN [ok |-> FALSE, state |-> state]
      ELSE [ok |-> TRUE,
            state |-> [state EXCEPT !.Program.ProgramDataAddress = pkBytes.val]]

\* (*UpgradeableLoaderStateProgram).MarshalWithEncoder
ProgramMarshalWithEncoder(program) == program.ProgramDataAddress

\* (*UpgradeableLoaderStateProgramData).UnmarshalWithDecoder
ProgramDataUnmarshalWithDecoder(state, data, pos) ==
  LET slot == ReadUint64(data, pos)
      withSlot == [state EXCEPT !.ProgramData.Slot = slot.val]
      hasPubkey == ReadBool(data, slot.pos)
      pkBytes == ReadBytes(data, hasPubkey.pos, PublicKeyLength)
  IN  IF ~slot.ok THEN [ok |-> FALSE, state |-> state]
      ELSE IF ~hasPubkey.ok THEN [ok |-> FALSE, state |-> withSlot]
      ELSE IF hasPubkey.val
      THEN IF ~pkBytes.ok THEN [ok |-> FALSE, state |-> withSlot]
           ELSE [ok |-> TRUE,
                 state |-> [withSlot EXCEPT
                              !.ProgramData.UpgradeAuthorityAddress = pkBytes.val]]
      ELSE [ok |-> TRUE, state |-> withSlot]

\* (*UpgradeableLoaderStateProgramData).MarshalWithEncoder
ProgramDataMarshalWithEncoder(programData) ==
  WriteUint64(programData.Slot) \o
  (IF programData.UpgradeAuthorityAddress # NilKey
   THEN programData.UpgradeAuthorityAddress ELSE << >>)

\* (*UpgradeableLoaderState).UnmarshalWithDecoder
UnmarshalWithDecoder(data) ==
  LET type == ReadUint32(data, 0)
      state == [NewUpgradeableLoaderState EXCEPT !.Type = type.val]
  IN  IF ~type.ok THEN [ok |-> FALSE, state |-> NewUpgradeableLoaderState]
      ELSE CASE type.val = UpgradeableLoaderStateTypeUninitialized ->
                  [ok |-> TRUE, state |-> state]
             [] type.val = UpgradeableLoaderStateTypeBuffer ->
                  BufferUnmarshalWithDecoder(state, data, type.pos)
             [] type.val = UpgradeableLoaderStateTypeProgram ->
                  ProgramUnmarshalWithDecoder(state, data, type.pos)
             [] type.val = UpgradeableLoaderStateTypeProgramData ->
                  ProgramDataUnmarshalWithDecoder(state, data, type.pos)
             [] OTHER -> [ok |-> FALSE, state |-> state]

\* (*UpgradeableLoaderState).MarshalWithEncoder: the bytes the encoder receives.
\* A Type outside the four variants panics; no handler builds one.
MarshalWithEncoder(state) ==
  CASE state.Type = UpgradeableLoaderStateTypeUninitialized -> << >>
    [] state.Type = UpgradeableLoaderStateTypeBuffer ->
         BufferMarshalWithEncoder(state.Buffer)
    [] state.Type = UpgradeableLoaderStateTypeProgram ->
         ProgramMarshalWithEncoder(state.Program)
    [] state.Type = UpgradeableLoaderStateTypeProgramData ->
         ProgramDataMarshalWithEncoder(state.ProgramData)

\* What unmarshalUpgradeableLoaderState makes of the decoder's result.
Unmarshalled(r) ==
  IF ~r.ok THEN [err |-> InstrErrInvalidAccountData, isNil |-> TRUE,
                 state |-> NewUpgradeableLoaderState]
  ELSE [err |-> InstrOK, isNil |-> FALSE, state |-> r.state]

\* unmarshalUpgradeableLoaderState: (state, nil) or (nil, InvalidAccountData).
unmarshalUpgradeableLoaderState(data) == Unmarshalled(UnmarshalWithDecoder(data))

\* marshalUpgradeableLoaderState
marshalUpgradeableLoaderState(state) == MarshalWithEncoder(state)

\* ------------------------------------------------------- well-known keys

\* The system program's address: 32 zero bytes.
SystemProgramAddr == ZeroKey
SysvarRentAddr == PublicKey(40)
SysvarClockAddr == PublicKey(41)
BpfLoaderUpgradeableAddr == PublicKey(50)
NativeLoaderAddr == PublicKey(52)
BpfLoaderAddr == PublicKey(53)
BpfLoaderDeprecatedAddr == PublicKey(54)

\* solana.FindProgramAddress(seed, programId): a deterministic function of the
\* seed and the program id (a hash in the library); the bump seed it found.
FindProgramAddress(seed, programId) ==
  [addr |-> PublicKey((seed[1] + programId[1]) % 128), bump |-> 255]

\* solana.CreateProgramAddress(seeds ++ [bump], programId): the address
\* FindProgramAddress found with that bump.
CreateProgramAddress(seed, bump, programId) ==
  IF bump = FindProgramAddress(seed, programId).bump
  THEN [ok |-> TRUE, addr |-> FindProgramAddress(seed, programId).addr]
  ELSE [ok |-> FALSE, addr |-> ZeroKey]

\* ------------------------------------------------------------------- state

VARIABLES
  accounts,   \* the transaction's accounts: name -> [key, owner, lamports, data, executable]
  clock,      \* the clock sysvar's slot
  rent,       \* the rent sysvar: lamports per byte for rent exemption
  last,       \* the last instruction: what ran, its result, the accounts before and after the handler
  upgrades,   \* per account, the successful Upgrades of it at the current clock slot
  meter,      \* the compute units that remain in execCtx.ComputeMeter
  verify,     \* the verify-data command: where run() is, its locals, the segments handed out
  consumed    \* per account, the successful Upgrades that named it as their buffer

vars == <<accounts, clock, rent, last, upgrades, meter, verify, consumed>>

TxAccounts ==
  {"payer", "authA", "authB", "buf", "buf2", "prog", "pd", "tiny", "tinyBuf",
   "bufB", "richBuf", "badProg", "rent", "clock", "system"}

\* rent.MinimumBalance(dataLen): the rent-exempt minimum, linear in the
\* account's size (data plus the 128 bytes of account overhead).
MinimumBalance(r, dataLen) ==
  LET bytes == SaturatingAddU64(128, dataLen)
  IN  IF r = 0 THEN 0
      ELSE IF bytes > U64Max \div r THEN U64Max ELSE r * bytes

\* ------------------------------------------- InstructionCtx / TransactionCtx

\* An instruction: its accounts (names of transaction accounts, position 0
\* first), which positions signed, which are writable, and the decoded payload.
NumberOfInstructionAccounts(ix) == Len(ix.accts)

\* instrCtx.CheckNumOfInstructionAccounts(n)
CheckNumOfInstructionAccounts(ix, n) ==
  IF NumberOfInstructionAccounts(ix) < n
  THEN InstrErrNotEnoughAccountKeys ELSE InstrOK

\* instrCtx.IndexOfInstructionAccountInTransaction(i): position i (from 0).
IndexOfInstructionAccountInTransaction(ix, i) ==
  IF i < NumberOfInstructionAccounts(ix)
  THEN [err |-> InstrOK, idx |-> ix.accts[i + 1]]
  ELSE [err |-> InstrErrNotEnoughAccountKeys, idx |-> "none"]

\* instrCtx.IsInstructionAccountSigner(i)
IsInstructionAccountSigner(ix, i) ==
  IF i < NumberOfInstructionAccounts(ix)
  THEN [err |-> InstrOK, val |-> ix.signers[i + 1]]
  ELSE [err |-> InstrErrNotEnoughAccountKeys, val |-> FALSE]

\* BorrowedAccount.IsWritable for the account at position i
IsInstructionAccountWritable(ix, i) == ix.writable[i + 1]

\* instrCtx.LastProgramKey: the loader is the program being executed.
LastProgramKey == BpfLoaderUpgradeableAddr

\* checkAcctForRentSysvar / checkAcctForClockSysvar: the account at position i
\* is the sysvar's account.
checkAcctForSysvar(accts, ix, i, sysvarAddr) ==
  LET at == IndexOfInstructionAccountInTransaction(ix, i)
  IN  IF at.err # InstrOK THEN at.err
      ELSE IF accts[at.idx].key # sysvarAddr THEN InstrErrInvalidArgument
      ELSE InstrOK

\* ---------------------------------------------------------- BorrowedAccount

\* Go's copy(dst, src): the first min(len) bytes of dst are replaced.
GoCopy(dst, src) ==
  [i \in 1..Len(dst) |-> IF i <= Len(src) THEN src[i] ELSE dst[i]]

\* copy(data[lo:hi], src) on the account's own backing array.
CopyIntoSlice(data, lo, hi, src) ==
  SubSeq(data, 1, lo) \o GoCopy(SubSeq(data, lo + 1, hi), src)
    \o SubSeq(data, hi + 1, Len(data))

\* What a handler returns: its error and the accounts as it left them.
Return(err, accts) == [err |-> err, accts |-> accts]

\* The statements of a handler run in sequence: each of the operations below
\* acts on the result `res` of the statements before it, and is skipped once
\* one of them has returned an error (`if err != nil { return err }`).

\* A call whose returned error is not examined.
Ignore(res) == Return(InstrOK, res.accts)

\* `if !cond { return err }`
Require(res, cond, err) ==
  IF res.err # InstrOK THEN res
  ELSE IF cond THEN res ELSE Return(err, res.accts)

\* acct.SetState(f, bytes): the bytes overwrite the prefix of the account's data.
SetState(res, a, bytes) ==
  IF res.err # InstrOK THEN res
  ELSE IF Len(bytes) > Len(res.accts[a].data)
  THEN Return(InstrErrAccountDataTooSmall, res.accts)
  ELSE Return(InstrOK,
              [res.accts EXCEPT ![a].data = GoCopy(res.accts[a].data, bytes)])

\* acct.SetLamports(n, f)
SetLamports(res, a, n) ==
  IF res.err # InstrOK THEN res
  ELSE Return(InstrOK, [res.accts EXCEPT ![a].lamports = n])

\* acct.CheckedAddLamports(n, f)
CheckedAddLamports(res, a, n) ==
  IF res.err # InstrOK THEN res
  ELSE IF res.accts[a].lamports > U64Max - n
  THEN Return(InstrErrArithmeticOverflow, res.accts)
  ELSE Return(InstrOK, [res.accts EXCEPT ![a].lamports = @ + n])

\* acct.SetDataLength(n, f): truncate, or extend with zero bytes.
SetDataLength(res, a, n) ==
  IF res.err # InstrOK THEN res
  ELSE Return(InstrOK,
              [res.accts EXCEPT ![a].data =
                 [i \in 1..n |-> IF i <= Len(res.accts[a].data)
                                 THEN res.accts[a].data[i] ELSE 0]])

\* acct.SetExecutable(true)
SetExecutable(res, a, e) ==
  IF res.err # InstrOK THEN res
  ELSE Return(InstrOK, [res.accts EXCEPT ![a].executable = e])

\* setUpgradeableLoaderAccountState
setUpgradeableLoaderAccountState(res, a, state) ==
  SetState(res, a, marshalUpgradeableLoaderState(state))

\* Lines 636-648 and 830-841: the two length checks on the program-data
\* account, then copy(programData.Data[dstOffset:dstEnd], buffer.Data[srcOffset:]).
CopyProgramBytes(res, dst, dstOffset, dstEnd, src, srcOffset) ==
  IF res.err # InstrOK THEN res
  ELSE IF Len(res.accts[dst].data) < dstEnd
  THEN Return(InstrErrAccountDataTooSmall, res.accts)
  ELSE IF Len(res.accts[dst].data) < srcOffset
  THEN Return(InstrErrAccountDataTooSmall, res.accts)
  ELSE Return(InstrOK,
              [res.accts EXCEPT ![dst].data =
                 CopyIntoSlice(res.accts[dst].data, dstOffset, dstEnd,
                   SubSeq(res.accts[src].data, srcOffset + 1,
                          Len(res.accts[src].data)))])

\* The zero fill started one byte late.
ZeroFillSkipsFirst(res, a, dstEnd) ==
  IF res.err # InstrOK THEN res
  ELSE Return(InstrOK,
              [res.accts EXCEPT ![a].data =
                 [i \in 1..Len(res.accts[a].data) |->
                    IF i > dstEnd + 1 THEN 0 ELSE res.accts[a].data[i]]])

\* Lines 843-846: every byte of programData.Data[dstEnd:] is set to zero.
ZeroFill(res, a, dstEnd) ==
  IF res.err # InstrOK THEN res
  ELSE Return(InstrOK,
              [res.accts EXCEPT ![a].data =
                 [i \in 1..Len(res.accts[a].data) |->
                    IF i > dstEnd THEN 0 ELSE res.accts[a].data[i]]])

\* ---------------------------------------------------------------- handlers

\* writeProgramData with the destination one byte early.
writeProgramDataOffByOne(accts, ix, programDataOffset, bytes) ==
  LET at == IndexOfInstructionAccountInTransaction(ix, 0)
      program == accts[at.idx]
      writeOffset == SaturatingAddU64(programDataOffset, Len(bytes))
  IN  IF at.err # InstrOK THEN Return(at.err, accts)
      ELSE IF Len(program.data) < writeOffset
      THEN Return(InstrErrAccountDataTooSmall, accts)
      ELSE Return(InstrOK,
                  [accts EXCEPT ![at.idx].data =
                     CopyIntoSlice(program.data, programDataOffset - 1,
                                   writeOffset - 1, bytes)])

\* writeProgramData with the offsets computed in 32 bits, wrapping.
writeProgramDataWrap32(accts, ix, programDataOffset, bytes) ==
  LET at == IndexOfInstructionAccountInTransaction(ix, 0)
      program == accts[at.idx]
      start == programDataOffset % (U32Max + 1)
      writeOffset == (start + Len(bytes)) % (U32Max + 1)
  IN  IF at.err # InstrOK THEN Return(at.err, accts)
      ELSE IF Len(program.data) < writeOffset \/ writeOffset < start
      THEN Return(InstrErrAccountDataTooSmall, accts)
      ELSE Return(InstrOK,
                  [accts EXCEPT ![at.idx].data =
                     CopyIntoSlice(program.data, start, writeOffset, bytes)])

\* writeProgramData
writeProgramData(accts, ix, programDataOffset, bytes) ==
  LET at == IndexOfInstructionAccountInTransaction(ix, 0)
      program == accts[at.idx]
      writeOffset == SaturatingAddU64(programDataOffset, Len(bytes))
  IN  IF at.err # InstrOK THEN Return(at.err, accts)
      ELSE IF Len(program.data) < writeOffset
      THEN Return(InstrErrAccountDataTooSmall, accts)
      ELSE Return(InstrOK,
                  [accts EXCEPT ![at.idx].data =
                     CopyIntoSlice(program.data, programDataOffset, writeOffset, bytes)])

\* UpgradeableLoaderInitializeBuffer storing the authority whatever state the
\* account holds.
UpgradeableLoaderInitializeBufferAnyState(accts, ix) ==
  LET buffer == ix.accts[1]
      dec == unmarshalUpgradeableLoaderState(accts[buffer].data)
      authorityKey == accts[ix.accts[2]].key
      state == [dec.state EXCEPT !.Type = UpgradeableLoaderStateTypeBuffer,
                                 !.Buffer.AuthorityAddress = authorityKey]
  IN  IF CheckNumOfInstructionAccounts(ix, 2) # InstrOK
      THEN Return(CheckNumOfInstructionAccounts(ix, 2), accts)
      ELSE IF dec.err # InstrOK THEN Return(dec.err, accts)
      ELSE setUpgradeableLoaderAccountState(Return(InstrOK, accts), buffer, state)

\* UpgradeableLoaderInitializeBuffer
UpgradeableLoaderInitializeBuffer(accts, ix) ==
  LET buffer == ix.accts[1]
      dec == unmarshalUpgradeableLoaderState(accts[buffer].data)
      authorityKey == accts[ix.accts[2]].key
      state == [dec.state EXCEPT !.Type = UpgradeableLoaderStateTypeBuffer,
                                 !.Buffer.AuthorityAddress = authorityKey]
  IN  IF CheckNumOfInstructionAccounts(ix, 2) # InstrOK
      THEN Return(CheckNumOfInstructionAccounts(ix, 2), accts)
      ELSE IF dec.err # InstrOK THEN Return(dec.err, accts)
      ELSE IF dec.state.Type # UpgradeableLoaderStateTypeUninitialized
      THEN Return(InstrErrAccountAlreadyInitialized, accts)
      ELSE setUpgradeableLoaderAccountState(Return(InstrOK, accts), buffer, state)

\* The checks of WriteCheckBufferAuthority with the signature examined before
\* the authority is compared.
WriteCheckSignerFirst(accts, ix) ==
  LET buffer == ix.accts[1]
      dec == unmarshalUpgradeableLoaderState(accts[buffer].data)
      authorityKey == accts[ix.accts[2]].key
      isSigner == IsInstructionAccountSigner(ix, 1)
  IN  IF dec.err # InstrOK THEN dec.err
      ELSE IF dec.state.Type # UpgradeableLoaderStateTypeBuffer
      THEN InstrErrInvalidAccountData
      ELSE IF dec.state.Buffer.AuthorityAddress = NilKey THEN InstrErrImmutable
      ELSE IF ~isSigner.val THEN InstrErrMissingRequiredSignature
      ELSE IF dec.state.Buffer.AuthorityAddress # authorityKey
      THEN InstrErrIncorrectAuthority
      ELSE InstrOK

\* UpgradeableLoaderWrite, lines 404-440: the checks of the buffer's state,
\* its authority and the authority's signature; the error they end in.
WriteCheckBufferAuthority(accts, ix) ==
  LET buffer == ix.accts[1]
      dec == unmarshalUpgradeableLoaderState(accts[buffer].data)
      authorityKey == accts[ix.accts[2]].key
      isSigner == IsInstructionAccountSigner(ix, 1)
  IN  IF dec.err # InstrOK THEN dec.err
      ELSE IF dec.state.Type # UpgradeableLoaderStateTypeBuffer
      THEN InstrErrInvalidAccountData
      ELSE IF dec.state.Buffer.AuthorityAddress = NilKey THEN InstrErrImmutable
      ELSE IF dec.state.Buffer.AuthorityAddress # authorityKey
      THEN InstrErrIncorrectAuthority
      ELSE IF isSigner.err # InstrOK THEN isSigner.err
      ELSE IF ~isSigner.val THEN InstrErrMissingRequiredSignature
      ELSE InstrOK

\* UpgradeableLoaderWrite
UpgradeableLoaderWrite(accts, ix, write) ==
  IF CheckNumOfInstructionAccounts(ix, 2) # InstrOK
  THEN Return(CheckNumOfInstructionAccounts(ix, 2), accts)
  ELSE IF WriteCheckBufferAuthority(accts, ix) # InstrOK
  THEN Return(WriteCheckBufferAuthority(accts, ix), accts)
  ELSE writeProgramData(accts, ix,
         (upgradeableLoaderSizeOfBufferMetaData + write.Offset) % (U64Max + 1),
         write.Bytes)

\* execCtx.NativeInvoke of the system program's CreateAccount(payer -> new,
\* lamports, space, owner), signed by the outer instruction's signers and by
\* the program-derived `signers`; the buffer account rides along unused.
NativeInvokeCreateAccount(res, ix, from, to, lamports, space, owner, signers) ==
  LET accts == res.accts
      fromSigned == \E i \in 1..Len(ix.accts) : ix.accts[i] = from /\ ix.signers[i]
      toSigned == accts[to].key \in signers
        \/ \E i \in 1..Len(ix.accts) : ix.accts[i] = to /\ ix.signers[i]
  IN  IF res.err # InstrOK THEN res
      ELSE IF ~fromSigned \/ ~toSigned
      THEN Return(InstrErrMissingRequiredSignature, accts)
      ELSE IF accts[to].lamports > 0 \/ accts[to].data # << >>
              \/ accts[to].owner # SystemProgramAddr
      THEN Return("Custom(AccountAlreadyInUse)", accts)
      ELSE IF space > MaxPermittedDataLength
      THEN Return("Custom(InvalidAccountDataLength)", accts)
      ELSE IF accts[from].data # << >> THEN Return(InstrErrInvalidArgument, accts)
      ELSE IF accts[from].lamports < lamports
      THEN Return("Custom(ResultWithNegativeLamports)", accts)
      ELSE Return(InstrOK,
                  [accts EXCEPT ![to].data = Zeros(space), ![to].owner = owner,
                                ![to].lamports = @ + lamports,
                                ![from].lamports = @ - lamports])

\* The validation of the program account with the length examined before the
\* state.
DeployValidateLengthFirst(accts, ix, r) ==
  LET program == ix.accts[3]
      programAcctState == unmarshalUpgradeableLoaderState(accts[program].data)
  IN  IF programAcctState.err # InstrOK THEN programAcctState.err
      ELSE IF Len(accts[program].data) < upgradeableLoaderSizeOfProgram
      THEN InstrErrAccountDataTooSmall
      ELSE IF programAcctState.state.Type # UpgradeableLoaderStateTypeUninitialized
      THEN InstrErrAccountAlreadyInitialized
      ELSE IF accts[program].lamports < MinimumBalance(r, Len(accts[program].data))
      THEN InstrErrExecutableAccountNotRentExempt
      ELSE InstrOK

\* UpgradeableLoaderDeployWithMaxDataLen, lines 497-518: the validation of
\* the program account (position 2); the error it ends in.
DeployValidateProgramAccount(accts, ix, r) ==
  LET program == ix.accts[3]
      programAcctState == unmarshalUpgradeableLoaderState(accts[program].data)
  IN  IF programAcctState.err # InstrOK THEN programAcctState.err
      ELSE IF programAcctState.state.Type # UpgradeableLoaderStateTypeUninitialized
      THEN InstrErrAccountAlreadyInitialized
      ELSE IF Len(accts[program].data) < upgradeableLoaderSizeOfProgram
      THEN InstrErrAccountDataTooSmall
      ELSE IF accts[program].lamports < MinimumBalance(r, Len(accts[program].data))
      THEN InstrErrExecutableAccountNotRentExempt
      ELSE InstrOK

\* UpgradeableLoaderDeployWithMaxDataLen
UpgradeableLoaderDeployWithMaxDataLen(accts, ix, deploy, clk, r) ==
  LET payer == ix.accts[1]
      programData == ix.accts[2]
      program == ix.accts[3]
      buffer == ix.accts[4]
      programDataKey == accts[programData].key
      rentErr == checkAcctForSysvar(accts, ix, 4, SysvarRentAddr)
      clockErr == checkAcctForSysvar(accts, ix, 5, SysvarClockAddr)
      \* line 488: the authority key is read from position 1
      authorityKey == accts[ix.accts[2]].key
      newProgramId == accts[program].key
      \* line 528: the buffer's state is decoded from program.Data()
      bufferAcctState == unmarshalUpgradeableLoaderState(accts[program].data)
      isSigner == IsInstructionAccountSigner(ix, 7)
      bufferDataOffset == upgradeableLoaderSizeOfBufferMetaData
      bufferDataLen == SaturatingSubU64(Len(accts[buffer].data), bufferDataOffset)
      programDataDataOffset == upgradeableLoaderSizeOfProgramDataMetaData
      programDataLen == upgradeableLoaderSizeOfProgramData(deploy.MaxDataLen)
      derived == FindProgramAddress(newProgramId, LastProgramKey)
      minBalance == MinimumBalance(r, programDataLen)
      lamports == IF minBalance > 1 THEN minBalance ELSE 1
      signer == CreateProgramAddress(newProgramId, derived.bump, LastProgramKey)
      programDataState ==
        [NewUpgradeableLoaderState EXCEPT
           !.Type = UpgradeableLoaderStateTypeProgramData,
           !.ProgramData = [Slot |-> clk, UpgradeAuthorityAddress |-> authorityKey]]
      dstEnd == SaturatingAddU64(programDataDataOffset, bufferDataLen)
      programState ==
        [NewUpgradeableLoaderState EXCEPT
           !.Type = UpgradeableLoaderStateTypeProgram,
           !.Program = [ProgramDataAddress |-> programDataKey]]
      \* lines 586-587: the results of CheckedAddLamports and SetLamports are
      \* dropped
      r1 == Ignore(CheckedAddLamports(Return(InstrOK, accts), payer,
                                      accts[buffer].lamports))
      r2 == Ignore(SetLamports(r1, buffer, 0))
      r3 == Require(r2, signer.ok, InstrErrInvalidArgument)
      r4 == NativeInvokeCreateAccount(r3, ix, payer, programData, lamports,
              programDataLen, LastProgramKey, {signer.addr})
      r5 == setUpgradeableLoaderAccountState(r4, programData, programDataState)
      r6 == CopyProgramBytes(r5, programData, programDataDataOffset, dstEnd,
                             buffer, bufferDataOffset)
      r7 == SetDataLength(r6, buffer, upgradeableLoaderSizeOfBuffer(0))
      r8 == setUpgradeableLoaderAccountState(r7, program, programState)
  IN  IF CheckNumOfInstructionAccounts(ix, 4) # InstrOK
      THEN Return(CheckNumOfInstructionAccounts(ix, 4), accts)
      ELSE IF rentErr # InstrOK THEN Return(rentErr, accts)
      ELSE IF clockErr # InstrOK THEN Return(clockErr, accts)
      ELSE IF CheckNumOfInstructionAccounts(ix, 8) # InstrOK
      THEN Return(CheckNumOfInstructionAccounts(ix, 8), accts)
      ELSE IF DeployValidateProgramAccount(accts, ix, r) # InstrOK
      THEN Return(DeployValidateProgramAccount(accts, ix, r), accts)
      \* validate buffer account
      ELSE IF bufferAcctState.err # InstrOK THEN Return(bufferAcctState.err, accts)
      ELSE IF bufferAcctState.state.Type # UpgradeableLoaderStateTypeBuffer
      THEN Return(InstrErrInvalidArgument, accts)
      ELSE IF bufferAcctState.state.Buffer.AuthorityAddress # NilKey
              /\ authorityKey # NilKey
              /\ bufferAcctState.state.Buffer.AuthorityAddress # authorityKey
      THEN Return(InstrErrIncorrectAuthority, accts)
      ELSE IF isSigner.err # InstrOK THEN Return(isSigner.err, accts)
      ELSE IF ~isSigner.val THEN Return(InstrErrMissingRequiredSignature, accts)
      ELSE IF Len(accts[buffer].data) < upgradeableLoaderSizeOfBufferMetaData
              \/ bufferDataLen = 0
      THEN Return(InstrErrInvalidAccountData, accts)
      ELSE IF deploy.MaxDataLen < bufferDataLen
      THEN Return(InstrErrAccountDataTooSmall, accts)
      ELSE IF programDataLen > MaxPermittedDataLength
      THEN Return(InstrErrInvalidArgument, accts)
      ELSE IF derived.addr # programDataKey THEN Return(InstrErrInvalidArgument, accts)
      \* drain the buffer, create the program-data account, install the program
      ELSE IF ix.deprecateExecutableMetaUpdate THEN r8
      ELSE SetExecutable(r8, program, TRUE)

\* UpgradeableLoaderUpgrade, lines 713-745, on the decoded state of the
\* program account.
UpgradeProgramAccountChecks(accts, ix, programState) ==
  LET program == ix.accts[2]
      programDataKey == accts[ix.accts[1]].key
  IN  IF ~accts[program].executable THEN InstrErrAccountNotExecutable
      ELSE IF ~IsInstructionAccountWritable(ix, 1) THEN InstrErrInvalidArgument
      ELSE IF accts[program].owner # LastProgramKey THEN InstrErrIncorrectProgramId
      ELSE IF programState.err # InstrOK THEN programState.err
      ELSE IF programState.state.Type # UpgradeableLoaderStateTypeProgram
      THEN InstrErrInvalidAccountData
      ELSE IF programState.state.Program.ProgramDataAddress # programDataKey
      THEN InstrErrInvalidArgument
      ELSE InstrOK

\* The validation of the program account with the writable flag examined
\* before the executable flag.
UpgradeValidateProgramAccountWritableFirst(accts, ix) ==
  LET program == ix.accts[2]
      programDataKey == accts[ix.accts[1]].key
      programState == unmarshalUpgradeableLoaderState(accts[program].data)
  IN  IF ~IsInstructionAccountWritable(ix, 1) THEN InstrErrInvalidArgument
      ELSE IF ~accts[program].executable THEN InstrErrAccountNotExecutable
      ELSE IF accts[program].owner # LastProgramKey THEN InstrErrIncorrectProgramId
      ELSE IF programState.err # InstrOK THEN programState.err
      ELSE IF programState.state.Type # UpgradeableLoaderStateTypeProgram
      THEN InstrErrInvalidAccountData
      ELSE IF programState.state.Program.ProgramDataAddress # programDataKey
      THEN InstrErrInvalidArgument
      ELSE InstrOK

\* UpgradeableLoaderUpgrade, lines 713-745: the validation of the program
\* account (position 1); the error it ends in.
UpgradeValidateProgramAccount(accts, ix) ==
  UpgradeProgramAccountChecks(accts, ix,
    unmarshalUpgradeableLoaderState(accts[ix.accts[2]].data))

\* The checks of the buffer account that accept a buffer without payload.
UpgradeBufferChecksEmptyAccepted(accts, ix, bufferState) ==
  LET buffer == ix.accts[3]
      authorityKey == accts[ix.accts[7]].key
      isSigner == IsInstructionAccountSigner(ix, 6)
  IN  IF bufferState.isNil THEN GoPanic
      ELSE IF bufferState.state.Type # UpgradeableLoaderStateTypeBuffer
      THEN InstrErrInvalidArgument
      ELSE IF bufferState.state.Buffer.AuthorityAddress = NilKey
              \/ bufferState.state.Buffer.AuthorityAddress # authorityKey
      THEN InstrErrIncorrectAuthority
      ELSE IF isSigner.err # InstrOK THEN isSigner.err
      ELSE IF ~isSigner.val THEN InstrErrMissingRequiredSignature
      ELSE IF Len(accts[buffer].data) < upgradeableLoaderSizeOfBufferMetaData
      THEN InstrErrInvalidAccountData
      ELSE InstrOK

\* UpgradeableLoaderUpgrade, lines 754-773, on what line 752 decoded from the
\* buffer account.
UpgradeBufferChecks(accts, ix, bufferState) ==
  LET buffer == ix.accts[3]
      authorityKey == accts[ix.accts[7]].key
      \* line 752: the decode error is not examined
      isSigner == IsInstructionAccountSigner(ix, 6)
      bufferDataOffset == upgradeableLoaderSizeOfBufferMetaData
      bufferDataLen == SaturatingSubU64(Len(accts[buffer].data), bufferDataOffset)
  IN  IF bufferState.isNil THEN GoPanic
      ELSE IF bufferState.state.Type # UpgradeableLoaderStateTypeBuffer
      THEN InstrErrInvalidArgument
      ELSE IF bufferState.state.Buffer.AuthorityAddress = NilKey
              \/ bufferState.state.Buffer.AuthorityAddress # authorityKey
      THEN InstrErrIncorrectAuthority
      ELSE IF isSigner.err # InstrOK THEN isSigner.err
      ELSE IF ~isSigner.val THEN InstrErrMissingRequiredSignature
      ELSE IF Len(accts[buffer].data) < upgradeableLoaderSizeOfBufferMetaData
              \/ bufferDataLen = 0
      THEN InstrErrInvalidAccountData
      ELSE InstrOK

\* UpgradeableLoaderUpgrade, lines 747-773: the validation of the buffer
\* account (position 2) against the authority (position 6).
UpgradeValidateBuffer(accts, ix) ==
  UpgradeBufferChecks(accts, ix,
    unmarshalUpgradeableLoaderState(accts[ix.accts[3]].data))

\* The balance kept in the program-data account, without the floor of one
\* lamport.
programDataBalanceRequiredNoFloor(minBalance) == minBalance

\* UpgradeableLoaderUpgrade, lines 780-786: the balance the program-data
\* account keeps.
programDataBalanceRequired(minBalance) ==
  IF minBalance > 1 THEN minBalance ELSE 1

\* UpgradeableLoaderUpgrade, lines 775-794: the program-data account holds
\* the buffer's payload and the two accounts fund its rent.
UpgradeValidateFunds(accts, ix, r) ==
  LET programData == ix.accts[1]
      buffer == ix.accts[3]
      bufferDataLen == SaturatingSubU64(Len(accts[buffer].data),
                                        upgradeableLoaderSizeOfBufferMetaData)
      minBalance == MinimumBalance(r, Len(accts[programData].data))
  IN  IF Len(accts[programData].data)
           < upgradeableLoaderSizeOfProgramData(bufferDataLen)
      THEN InstrErrAccountDataTooSmall
      ELSE IF SaturatingAddU64(accts[programData].lamports, accts[buffer].lamports)
                < programDataBalanceRequired(minBalance)
      THEN InstrErrInsufficientFunds
      ELSE InstrOK

\* UpgradeableLoaderUpgrade, lines 802-820, on the decoded state of the
\* program-data account.
UpgradeProgramDataChecks(accts, ix, clk, programDataState) ==
  LET authorityKey == accts[ix.accts[7]].key
      isSigner == IsInstructionAccountSigner(ix, 6)
  IN  IF programDataState.err # InstrOK THEN programDataState.err
      ELSE IF programDataState.state.Type # UpgradeableLoaderStateTypeProgramData
      THEN InstrErrInvalidAccountData
      ELSE IF clk = programDataState.state.ProgramData.Slot
      THEN InstrErrInvalidArgument
      ELSE IF programDataState.state.ProgramData.UpgradeAuthorityAddress = NilKey
      THEN InstrErrImmutable
      ELSE IF programDataState.state.ProgramData.UpgradeAuthorityAddress # authorityKey
      THEN InstrErrIncorrectAuthority
      ELSE IF isSigner.err # InstrOK THEN isSigner.err
      ELSE IF ~isSigner.val THEN InstrErrMissingRequiredSignature
      ELSE InstrOK

\* The validation of the program-data account with the upgrade authority
\* examined before the slot.
UpgradeValidateProgramDataAuthorityFirst(accts, ix, clk) ==
  LET authorityKey == accts[ix.accts[7]].key
      isSigner == IsInstructionAccountSigner(ix, 6)
      programDataState == unmarshalUpgradeableLoaderState(accts[ix.accts[1]].data)
  IN  IF programDataState.err # InstrOK THEN programDataState.err
      ELSE IF programDataState.state.Type # UpgradeableLoaderStateTypeProgramData
      THEN InstrErrInvalidAccountData
      ELSE IF programDataState.state.ProgramData.UpgradeAuthorityAddress = NilKey
      THEN InstrErrImmutable
      ELSE IF programDataState.state.ProgramData.UpgradeAuthorityAddress # authorityKey
      THEN InstrErrIncorrectAuthority
      ELSE IF clk = programDataState.state.ProgramData.Slot
      THEN InstrErrInvalidArgument
      ELSE IF isSigner.err # InstrOK THEN isSigner.err
      ELSE IF ~isSigner.val THEN InstrErrMissingRequiredSignature
      ELSE InstrOK

\* The validation of the program-data account with the stored upgrade
\* authority never compared to the authority's key.
UpgradeValidateProgramDataAnyAuthority(accts, ix, clk) ==
  LET isSigner == IsInstructionAccountSigner(ix, 6)
      programDataState == unmarshalUpgradeableLoaderState(accts[ix.accts[1]].data)
  IN  IF programDataState.err # InstrOK THEN programDataState.err
      ELSE IF programDataState.state.Type # UpgradeableLoaderStateTypeProgramData
      THEN InstrErrInvalidAccountData
      ELSE IF clk = programDataState.state.ProgramData.Slot
      THEN InstrErrInvalidArgument
      ELSE IF programDataState.state.ProgramData.UpgradeAuthorityAddress = NilKey
      THEN InstrErrImmutable
      ELSE IF isSigner.err # InstrOK THEN isSigner.err
      ELSE IF ~isSigner.val THEN InstrErrMissingRequiredSignature
      ELSE InstrOK

\* The validation of the program-data account with an absent upgrade
\* authority accepted.
UpgradeValidateProgramDataNoneAccepted(accts, ix, clk) ==
  LET authorityKey == accts[ix.accts[7]].key
      isSigner == IsInstructionAccountSigner(ix, 6)
      programDataState == unmarshalUpgradeableLoaderState(accts[ix.accts[1]].data)
  IN  IF programDataState.err # InstrOK THEN programDataState.err
      ELSE IF programDataState.state.Type # UpgradeableLoaderStateTypeProgramData
      THEN InstrErrInvalidAccountData
      ELSE IF clk = programDataState.state.ProgramData.Slot
      THEN InstrErrInvalidArgument
      ELSE IF programDataState.state.ProgramData.UpgradeAuthorityAddress # NilKey
              /\ programDataState.state.ProgramData.UpgradeAuthorityAddress
                   # authorityKey
      THEN InstrErrIncorrectAuthority
      ELSE IF isSigner.err # InstrOK THEN isSigner.err
      ELSE IF ~isSigner.val THEN InstrErrMissingRequiredSignature
      ELSE InstrOK

\* UpgradeableLoaderUpgrade, lines 796-820: the validation of the
\* program-data account (position 0): its slot, its upgrade authority, the
\* authority's signature.
UpgradeValidateProgramData(accts, ix, clk) ==
  UpgradeProgramDataChecks(accts, ix, clk,
    unmarshalUpgradeableLoaderState(accts[ix.accts[1]].data))

\* if err != nil { return err } on the error of a group of checks.
Check(res, err) ==
  IF res.err # InstrOK THEN res
  ELSE IF err # InstrOK THEN Return(err, res.accts)
  ELSE res

\* UpgradeableLoaderUpgrade
UpgradeableLoaderUpgrade(accts, ix, clk, r) ==
  LET programData == ix.accts[1]
      buffer == ix.accts[3]
      spill == ix.accts[4]
      rentErr == checkAcctForSysvar(accts, ix, 4, SysvarRentAddr)
      clockErr == checkAcctForSysvar(accts, ix, 5, SysvarClockAddr)
      authorityKey == accts[ix.accts[7]].key
      programErr == UpgradeValidateProgramAccount(accts, ix)
      bufferErr == UpgradeValidateBuffer(accts, ix)
      fundsErr == UpgradeValidateFunds(accts, ix, r)
      programDataErr == UpgradeValidateProgramData(accts, ix, clk)
      bufferLamports == accts[buffer].lamports
      bufferDataOffset == upgradeableLoaderSizeOfBufferMetaData
      bufferDataLen == SaturatingSubU64(Len(accts[buffer].data), bufferDataOffset)
      required ==
        programDataBalanceRequired(MinimumBalance(r, Len(accts[programData].data)))
      \* line 824: the new state is built without a Type
      programDataNewState ==
        [NewUpgradeableLoaderState EXCEPT
           !.ProgramData = [Slot |-> clk, UpgradeAuthorityAddress |-> authorityKey]]
      programDataDataOffset == upgradeableLoaderSizeOfProgramDataMetaData
      dstEnd == SaturatingAddU64(programDataDataOffset, bufferDataLen)
      \* line 853: programData.Lamports() is still the balance the handler
      \* was entered with, no statement before it changes lamports
      spillLamports ==
        SaturatingSubU64(SaturatingAddU64(accts[programData].lamports, bufferLamports),
                         required)
      c1 == Check(Return(InstrOK, accts), CheckNumOfInstructionAccounts(ix, 3))
      c2 == Check(c1, rentErr)
      c3 == Check(c2, clockErr)
      c4 == Check(c3, CheckNumOfInstructionAccounts(ix, 7))
      c5 == Check(c4, programErr)
      c6 == Check(c5, bufferErr)
      c7 == Check(c6, fundsErr)
      c8 == Check(c7, programDataErr)
      \* the upgrade
      r1 == setUpgradeableLoaderAccountState(c8, programData, programDataNewState)
      r2 == CopyProgramBytes(r1, programData, programDataDataOffset, dstEnd,
                             buffer, bufferDataOffset)
      r3 == ZeroFill(r2, programData, dstEnd)
      r4 == CheckedAddLamports(r3, spill, spillLamports)
      r5 == SetLamports(r4, buffer, 0)
      r6 == SetLamports(r5, programData, required)
  IN  SetDataLength(r6, buffer, upgradeableLoaderSizeOfBuffer(0))

\* ------------------------------------------------------------- dispatcher

RECURSIVE ReadUvarint64(_, _)
\* decoder.ReadUvarint64(): seven bits a byte, the low ones first, the top
\* bit set on every byte but the last; an error when the bytes run out.
ReadUvarint64(data, pos) ==
  IF pos >= Len(data) THEN [ok |-> FALSE, val |-> 0, pos |-> pos]
  ELSE IF data[pos + 1] < 128
  THEN [ok |-> TRUE, val |-> data[pos + 1], pos |-> pos + 1]
  ELSE LET rest == ReadUvarint64(data, pos + 1)
       IN  [ok |-> rest.ok, val |-> (data[pos + 1] - 128) + 128 * rest.val,
            pos |-> rest.pos]

\* decoder.ReadByteSlice(): a length, then that many bytes.
ReadByteSlice(data, pos) ==
  LET length == ReadUvarint64(data, pos)
  IN  IF ~length.ok THEN [ok |-> FALSE, val |-> << >>, pos |-> pos]
      ELSE ReadBytes(data, length.pos, length.val)

\* (*UpgradeableLoaderInstrWrite).UnmarshalWithDecoder
WriteUnmarshalWithDecoder(data, pos) ==
  LET offset == ReadUint32(data, pos)
      bytes == ReadByteSlice(data, offset.pos)
  IN  IF ~offset.ok THEN [ok |-> FALSE, val |-> [Offset |-> 0, Bytes |-> << >>]]
      ELSE [ok |-> bytes.ok, val |-> [Offset |-> offset.val, Bytes |-> bytes.val]]

\* (*UpgradeableLoaderInstrDeployWithMaxDataLen).UnmarshalWithDecoder
DeployUnmarshalWithDecoder(data, pos) ==
  LET maxDataLen == ReadUint64(data, pos)
  IN  [ok |-> maxDataLen.ok, val |-> [MaxDataLen |-> maxDataLen.val]]

\* What the dispatcher returns: the handler it ran ("none" when it ran none),
\* the error, and the accounts as they were left.
Dispatched(handler, res) ==
  [err |-> res.err, accts |-> res.accts, handler |-> handler]

\* The dispatcher running the handler on a zero-valued payload when the
\* payload does not decode.
ProcessIgnoringPayloadError(accts, ix, instrData, clk, r) ==
  LET instrType == ReadUint32(instrData, 0)
      write == WriteUnmarshalWithDecoder(instrData, instrType.pos)
      deploy == DeployUnmarshalWithDecoder(instrData, instrType.pos)
  IN  IF ~instrType.ok
      THEN Dispatched("none", Return(InstrErrInvalidInstructionData, accts))
      ELSE IF instrType.val = UpgradeableLoaderInstrTypeInitializeBuffer
      THEN Dispatched("InitializeBuffer", UpgradeableLoaderInitializeBuffer(accts, ix))
      ELSE IF instrType.val = UpgradeableLoaderInstrTypeWrite
      THEN Dispatched("Write", UpgradeableLoaderWrite(accts, ix, write.val))
      ELSE IF instrType.val = UpgradeableLoaderInstrTypeDeployWithMaxDataLen
      THEN Dispatched("DeployWithMaxDataLen",
             UpgradeableLoaderDeployWithMaxDataLen(accts, ix, deploy.val, clk, r))
      ELSE IF instrType.val = UpgradeableLoaderInstrTypeUpgrade
      THEN Dispatched("Upgrade", UpgradeableLoaderUpgrade(accts, ix, clk, r))
      ELSE Dispatched("none", Return(InstrErrInvalidInstructionData, accts))

\* ProcessUpgradeableLoaderInstruction
ProcessUpgradeableLoaderInstruction(accts, ix, instrData, clk, r) ==
  LET instrType == ReadUint32(instrData, 0)
      write == WriteUnmarshalWithDecoder(instrData, instrType.pos)
      deploy == DeployUnmarshalWithDecoder(instrData, instrType.pos)
  IN  IF ~instrType.ok
      THEN Dispatched("none", Return(InstrErrInvalidInstructionData, accts))
      ELSE IF instrType.val = UpgradeableLoaderInstrTypeInitializeBuffer
      THEN Dispatched("InitializeBuffer", UpgradeableLoaderInitializeBuffer(accts, ix))
      ELSE IF instrType.val = UpgradeableLoaderInstrTypeWrite
      THEN IF ~write.ok
           THEN Dispatched("none", Return(InstrErrInvalidInstructionData, accts))
           ELSE Dispatched("Write", UpgradeableLoaderWrite(accts, ix, write.val))
      ELSE IF instrType.val = UpgradeableLoaderInstrTypeDeployWithMaxDataLen
      THEN IF ~deploy.ok
           THEN Dispatched("none", Return(InstrErrInvalidInstructionData, accts))
           ELSE Dispatched("DeployWithMaxDataLen",
                  UpgradeableLoaderDeployWithMaxDataLen(accts, ix, deploy.val, clk, r))
      ELSE IF instrType.val = UpgradeableLoaderInstrTypeUpgrade
      THEN Dispatched("Upgrade", UpgradeableLoaderUpgrade(accts, ix, clk, r))
      ELSE Dispatched("none", Return(InstrErrInvalidInstructionData, accts))

\* ----------------------------------------------------------- entry point

\* The compute units charged for an instruction of each loader.
CUUpgradeableLoaderComputeUnits == 2370
CUDefaultLoaderComputeUnits == 570
CUDeprecatedLoaderComputeUnits == 1140

\* execCtx.ComputeMeter.Consume(units): the units are taken from what
\* remains; when fewer remain the meter is emptied and the call fails.
Consume(budget, units) ==
  IF budget < units
  THEN [err |-> InstrErrComputationalBudgetExceeded, meter |-> 0]
  ELSE [err |-> InstrOK, meter |-> budget - units]

\* What the calls BpfLoaderProgramExecute makes leave behind, in order.
Consumed(units) == [call |-> "Consume", units |-> units]
Processed == [call |-> "ProcessUpgradeableLoaderInstruction", units |-> 0]

\* What BpfLoaderProgramExecute returns: the error, the accounts as left, the
\* handler that ran, what remains in the meter, the calls made.
Executed(err, accts, handler, budget, calls) ==
  [err |-> err, accts |-> accts, handler |-> handler, meter |-> budget,
   calls |-> calls]

\* What BpfLoaderProgramExecute returns when it has dispatched the instruction.
ExecutedProcess(process, budget, calls) ==
  Executed(process.err, process.accts, process.handler, budget, calls)

\* BpfLoaderProgramExecute dispatching an instruction of the upgradeable
\* loader without charging its units.
BpfLoaderProgramExecuteWithoutCharge(accts, ix, instrData, programAcct, budget, clk, r) ==
  LET programId == programAcct.key
      upgradeable == Consume(budget, CUUpgradeableLoaderComputeUnits)
      default == Consume(budget, CUDefaultLoaderComputeUnits)
      deprecated == Consume(budget, CUDeprecatedLoaderComputeUnits)
  IN  IF programAcct.owner = NativeLoaderAddr
      THEN IF programId = BpfLoaderUpgradeableAddr
           THEN ExecutedProcess(
                  ProcessUpgradeableLoaderInstruction(accts, ix, instrData, clk, r),
                  budget, <<Processed>>)
           ELSE IF programId = BpfLoaderAddr
           THEN Executed(IF default.err # InstrOK THEN default.err
                         ELSE InstrErrUnsupportedProgramId,
                         accts, "none", default.meter,
                         <<Consumed(CUDefaultLoaderComputeUnits)>>)
           ELSE IF programId = BpfLoaderDeprecatedAddr
           THEN Executed(IF deprecated.err # InstrOK THEN deprecated.err
                         ELSE InstrErrUnsupportedProgramId,
                         accts, "none", deprecated.meter,
                         <<Consumed(CUDeprecatedLoaderComputeUnits)>>)
           ELSE Executed(InstrErrUnsupportedProgramId, accts, "none", budget, << >>)
      ELSE IF ~programAcct.executable
      THEN Executed(InstrErrUnsupportedProgramId, accts, "none", budget, << >>)
      ELSE Executed(InstrOK, accts, "none", budget, << >>)

\* BpfLoaderProgramExecute
BpfLoaderProgramExecute(accts, ix, instrData, programAcct, budget, clk, r) ==
  LET programId == programAcct.key
      upgradeable == Consume(budget, CUUpgradeableLoaderComputeUnits)
      default == Consume(budget, CUDefaultLoaderComputeUnits)
      deprecated == Consume(budget, CUDeprecatedLoaderComputeUnits)
  IN  IF programAcct.owner = NativeLoaderAddr
      THEN IF programId = BpfLoaderUpgradeableAddr
           THEN IF upgradeable.err # InstrOK
                THEN Executed(upgradeable.err, accts, "none", upgradeable.meter,
                              <<Consumed(CUUpgradeableLoaderComputeUnits)>>)
                ELSE ExecutedProcess(
                       ProcessUpgradeableLoaderInstruction(accts, ix, instrData, clk, r),
                       upgradeable.meter,
                       <<Consumed(CUUpgradeableLoaderComputeUnits), Processed>>)
           ELSE IF programId = BpfLoaderAddr
           THEN Executed(IF default.err # InstrOK THEN default.err
                         ELSE InstrErrUnsupportedProgramId,
                         accts, "none", default.meter,
                         <<Consumed(CUDefaultLoaderComputeUnits)>>)
           ELSE IF programId = BpfLoaderDeprecatedAddr
           THEN Executed(IF deprecated.err # InstrOK THEN deprecated.err
                         ELSE InstrErrUnsupportedProgramId,
                         accts, "none", deprecated.meter,
                         <<Consumed(CUDeprecatedLoaderComputeUnits)>>)
           ELSE Executed(InstrErrUnsupportedProgramId, accts, "none", budget, << >>)
      ELSE IF ~programAcct.executable
      THEN Executed(InstrErrUnsupportedProgramId, accts, "none", budget, << >>)
      \* line 350: the execution of a deployed program is not written yet
      ELSE Executed(InstrOK, accts, "none", budget, << >>)

\* ------------------------------------------------------------ the ledger

Account(key, owner, lamports, data, executable) ==
  [key |-> key, owner |-> owner, lamports |-> lamports, data |-> data,
   executable |-> executable]

KeyA == PublicKey(1)
KeyB == PublicKey(2)
ProgramKey == PublicKey(30)
ProgramDataKey == FindProgramAddress(ProgramKey, BpfLoaderUpgradeableAddr).addr

\* Account data as the reference loader lays it out (bincode): the u32 tag,
\* then the variant's fields, an Option as a flag byte and the value.
CanonicalBuffer(authority, payload) ==
  LittleEndianBytes(UpgradeableLoaderStateTypeBuffer, 4)
    \o (IF authority = NilKey THEN <<0>> \o Zeros(PublicKeyLength)
        ELSE <<1>> \o authority)
    \o payload

CanonicalProgram(programDataAddress) ==
  LittleEndianBytes(UpgradeableLoaderStateTypeProgram, 4) \o programDataAddress

CanonicalProgramData(slot, authority, payload) ==
  LittleEndianBytes(UpgradeableLoaderStateTypeProgramData, 4)
    \o LittleEndianBytes(slot, 8)
    \o (IF authority = NilKey THEN <<0>> \o Zeros(PublicKeyLength)
        ELSE <<1>> \o authority)
    \o payload

\* The staging buffer "buf" as the ledger may hold it.
BufKinds == {"uninitialized", "buffer", "immutable"}
\* The program and its program-data account as the ledger may hold them.
ProgKinds == {"deployed", "immutable", "undeployed"}

BufData(kind) ==
  CASE kind = "uninitialized" ->
         Zeros(upgradeableLoaderSizeOfBufferMetaData + MaxPayload)
    [] kind = "buffer" -> CanonicalBuffer(KeyA, Zeros(MaxPayload))
    [] kind = "immutable" -> CanonicalBuffer(NilKey, Zeros(MaxPayload))

ProgramDataPayload == [i \in 1..(MaxPayload + 1) |-> 9]

Ledger(bufKind, progKind, r) ==
  [a \in TxAccounts |->
     CASE a = "payer" -> Account(PublicKey(10), SystemProgramAddr, 1000, << >>, FALSE)
       [] a = "authA" -> Account(KeyA, SystemProgramAddr, 1, << >>, FALSE)
       [] a = "authB" -> Account(KeyB, SystemProgramAddr, 1, << >>, FALSE)
       [] a = "buf" ->
            Account(PublicKey(20), BpfLoaderUpgradeableAddr, 5, BufData(bufKind), FALSE)
       [] a = "buf2" ->
            Account(PublicKey(21), BpfLoaderUpgradeableAddr, 7,
                    CanonicalBuffer(KeyA, <<7>>), FALSE)
       [] a = "prog" ->
            IF progKind = "undeployed"
            THEN Account(ProgramKey, BpfLoaderUpgradeableAddr,
                         MinimumBalance(r, upgradeableLoaderSizeOfProgram),
                         Zeros(upgradeableLoaderSizeOfProgram), FALSE)
            ELSE Account(ProgramKey, BpfLoaderUpgradeableAddr,
                         MinimumBalance(r, upgradeableLoaderSizeOfProgram),
                         CanonicalProgram(ProgramDataKey), TRUE)
       [] a = "pd" ->
            IF progKind = "undeployed"
            THEN Account(ProgramDataKey, SystemProgramAddr, 0, << >>, FALSE)
            ELSE Account(ProgramDataKey, BpfLoaderUpgradeableAddr,
                   MinimumBalance(r, upgradeableLoaderSizeOfProgramDataMetaData
                                       + MaxPayload + 1),
                   CanonicalProgramData(0,
                     IF progKind = "immutable" THEN NilKey ELSE KeyA,
                     ProgramDataPayload),
                   FALSE)
       [] a = "tiny" ->
            Account(PublicKey(22), BpfLoaderUpgradeableAddr, 0, Zeros(4), FALSE)
       [] a = "tinyBuf" ->
            Account(PublicKey(23), BpfLoaderUpgradeableAddr, 0,
                    LittleEndianBytes(UpgradeableLoaderStateTypeBuffer, 4) \o <<0>>,
                    FALSE)
       \* a buffer of authority KeyB
       [] a = "bufB" ->
            Account(PublicKey(24), BpfLoaderUpgradeableAddr, 5,
                    CanonicalBuffer(KeyB, <<8>>), FALSE)
       \* a buffer holding every lamport a u64 can count
       [] a = "richBuf" ->
            Account(PublicKey(25), BpfLoaderUpgradeableAddr, U64Max,
                    CanonicalBuffer(KeyA, <<3>>), FALSE)
       \* an executable account of the loader that holds no Program state
       [] a = "badProg" ->
            Account(PublicKey(26), BpfLoaderUpgradeableAddr, 1,
                    CanonicalBuffer(KeyA, << >>), TRUE)
       [] a = "rent" -> Account(SysvarRentAddr, PublicKey(42), 1, << >>, FALSE)
       [] a = "clock" -> Account(SysvarClockAddr, PublicKey(42), 1, << >>, FALSE)
       [] a = "system" -> Account(SystemProgramAddr, PublicKey(51), 1, << >>, TRUE)]

\* ------------------------------------------------------------ instructions

Instr(accts, signed, readonly, offset, bytes, maxDataLen, deprecate) ==
  [accts |-> accts,
   signers |-> [i \in 1..Len(accts) |-> accts[i] \in signed],
   writable |-> [i \in 1..Len(accts) |-> accts[i] \notin readonly],
   Offset |-> offset, Bytes |-> bytes, MaxDataLen |-> maxDataLen,
   deprecateExecutableMetaUpdate |-> deprecate]

NoInstr == Instr(<< >>, {}, {}, 0, << >>, 0, FALSE)

Authorities == {"authA", "authB"}

InitializeBufferInstrs ==
  {Instr(accts, {}, {}, 0, << >>, 0, FALSE) :
     accts \in {<<b, a>> : b \in {"buf", "tiny", "pd", "prog"}, a \in Authorities}
               \cup {<<"buf">>}}

WriteOffsets == {0, MaxPayload - 1, U32Max}
WriteBytes == {<< >>, <<170>>, <<170, 187>>}

WriteInstrs ==
  {Instr(accts, signed, {}, offset, bytes, 0, FALSE) :
     accts \in {<<b, a>> : b \in {"buf", "prog"}, a \in Authorities}
               \cup {<<"buf">>},
     signed \in {{}, Authorities},
     offset \in WriteOffsets,
     bytes \in WriteBytes}
  \* a Write aimed at the program-data account
  \cup {Instr(<<"pd", a>>, Authorities, {}, 0, <<170>>, 0, FALSE) : a \in Authorities}

DeployAccounts ==
  {<<"payer", "pd", p, b, "rent", "clock", "system", a>> :
     p \in {"prog", "buf", "tiny", "tinyBuf"}, b \in {"buf", "buf2"},
     a \in Authorities}
  \cup {<<"payer", "pd", "prog">>,
        <<"payer", "pd", "prog", "buf2", "rent", "clock">>,
        <<"payer", "pd", "prog", "buf2", "clock", "rent", "system", "authA">>}

DeployInstrs ==
  {Instr(accts, signed, {}, 0, << >>, maxDataLen, deprecate) :
     accts \in DeployAccounts,
     signed \in {{"payer"}, {"payer", "authA", "authB"}},
     maxDataLen \in {0, MaxPayload},
     deprecate \in {FALSE}}

UpgradeAccounts ==
  {<<"pd", "prog", b, "payer", "rent", "clock", a>> :
     b \in {"buf", "buf2", "tiny", "payer"}, a \in Authorities}
  \cup {<<"pd", "prog">>,
        <<"pd", "prog", "buf2", "payer", "rent", "clock">>,
        <<"pd", "prog", "buf2", "payer", "clock", "rent", "authA">>,
        <<"buf2", "prog", "buf", "payer", "rent", "clock", "authA">>,
        <<"pd", "buf", "buf2", "payer", "rent", "clock", "authA">>,
        <<"pd", "system", "buf2", "payer", "rent", "clock", "authA">>,
        <<"pd", "badProg", "buf2", "payer", "rent", "clock", "authA">>,
        <<"pd", "prog", "bufB", "payer", "rent", "clock", "authB">>,
        <<"pd", "prog", "richBuf", "payer", "rent", "clock", "authA">>,
        <<"pd", "prog", "richBuf", "tiny", "rent", "clock", "authA">>}

UpgradeInstrs ==
  {Instr(accts, signed, readonly, 0, << >>, 0, FALSE) :
     accts \in UpgradeAccounts,
     signed \in {{}, Authorities},
     readonly \in {{}, {"prog"}}}

\* ----------------------------------------------------------- state machine

\* The host keeps a handler's changes when it returns nil and discards them
\* when it returns an error.
Commit(res) == IF res.err = InstrOK THEN res.accts ELSE accounts

Ran(op, ix, res) ==
  [op |-> op, ix |-> ix, err |-> res.err, clock |-> clock,
   pre |-> accounts, post |-> res.accts]

\* No instruction is being processed.
Idle ==
  [op |-> "none", ix |-> NoInstr, err |-> InstrOK, clock |-> 0,
   pre |-> << >>, post |-> << >>]

\* The verify-data command is not running.
NotVerifying ==
  [pc |-> "off", slotLo |-> 0, slotHi |-> 0, workers |-> 0, step |-> 0,
   cursor |-> 0, i |-> 0, segments |-> << >>, statInterval |-> 0,
   stats |-> "none", ticks |-> 0, running |-> {}, failed |-> FALSE,
   ctxDone |-> FALSE, exitCode |-> -1, done |-> FALSE]

\* The handler has returned: the host keeps or discards its changes and the
\* instruction is recorded.
Returns(op, ix, res) ==
  /\ accounts' = Commit(res)
  /\ last' = Ran(op, ix, res)

\* The same for Upgrade, counted when it succeeds.
UpgradeReturns(ix, res) ==
  /\ accounts' = Commit(res)
  /\ last' = Ran("Upgrade", ix, res)
  /\ upgrades' = IF res.err = InstrOK
                 THEN [upgrades EXCEPT ![ix.accts[1]] = @ + 1]
                 ELSE upgrades
  /\ consumed' = IF res.err = InstrOK
                 THEN [consumed EXCEPT ![ix.accts[3]] = @ + 1]
                 ELSE consumed

Init ==
  /\ rent \in {0, 1}
  /\ clock = 0
  /\ \E bufKind \in BufKinds, progKind \in ProgKinds :
       accounts = Ledger(bufKind, progKind, rent)
  /\ last = Idle
  /\ upgrades = [a \in TxAccounts |-> 0]
  /\ consumed = [a \in TxAccounts |-> 0]
  /\ meter = 0
  /\ verify = NotVerifying

InitializeBuffer ==
  /\ last = Idle
  /\ \E ix \in InitializeBufferInstrs :
       Returns("InitializeBuffer", ix, UpgradeableLoaderInitializeBuffer(accounts, ix))
  /\ UNCHANGED <<clock, rent, upgrades, meter, verify, consumed>>

Write ==
  /\ last = Idle
  /\ \E ix \in WriteInstrs :
       Returns("Write", ix,
               UpgradeableLoaderWrite(accounts, ix,
                                      [Offset |-> ix.Offset, Bytes |-> ix.Bytes]))
  /\ UNCHANGED <<clock, rent, upgrades, meter, verify, consumed>>

DeployWithMaxDataLen ==
  /\ last = Idle
  /\ \E ix \in DeployInstrs :
       Returns("DeployWithMaxDataLen", ix,
               UpgradeableLoaderDeployWithMaxDataLen(accounts, ix,
                 [MaxDataLen |-> ix.MaxDataLen], clock, rent))
  /\ UNCHANGED <<clock, rent, upgrades, meter, verify, consumed>>

Upgrade ==
  /\ last = Idle
  /\ \E ix \in UpgradeInstrs :
       UpgradeReturns(ix, UpgradeableLoaderUpgrade(accounts, ix, clock, rent))
  /\ UNCHANGED <<clock, rent, meter, verify>>

\* The host pops the instruction's context when the handler has returned.
Pop ==
  /\ last # Idle
  /\ last' = Idle
  /\ UNCHANGED <<accounts, clock, rent, upgrades, meter, verify, consumed>>

\* The runtime publishes the next slot in the clock sysvar.
AdvanceClock ==
  /\ last = Idle
  /\ clock < MaxSlot
  /\ clock' = clock + 1
  /\ upgrades' = [a \in TxAccounts |-> 0]
  /\ UNCHANGED <<accounts, rent, last, meter, verify, consumed>>

Next ==
  \/ InitializeBuffer
  \/ Write
  \/ DeployWithMaxDataLen
  \/ Upgrade
  \/ Pop
  \/ AdvanceClock

Spec == Init /\ [][Next]_vars

\* ------------------------------------------------------- instruction data

\* Instruction data as a client serialises it: the u32 opcode, the payload.
InstrData(instrType, payload) == LittleEndianBytes(instrType, 4) \o payload

\* The payload of Write: the u32 offset, the length of the bytes, the bytes.
WritePayload(offset, bytes) ==
  LittleEndianBytes(offset, 4) \o <<Len(bytes)>> \o bytes

\* The payload of DeployWithMaxDataLen: the u64 max_data_len.
DeployPayload(maxDataLen) == LittleEndianBytes(maxDataLen, 8)

Input(ix, data) == [ix |-> ix, data |-> data]

ProcessInitializeBufferInputs ==
  {Input(Instr(accts, {}, {}, 0, << >>, 0, FALSE),
         InstrData(UpgradeableLoaderInstrTypeInitializeBuffer, << >>)) :
     accts \in {<<"buf", "authA">>, <<"tiny", "authA">>, <<"buf">>}}

ProcessWriteInputs ==
  {Input(Instr(<<"buf", "authA">>, signed, {}, offset, bytes, 0, FALSE),
         InstrData(UpgradeableLoaderInstrTypeWrite, WritePayload(offset, bytes))) :
     signed \in {{}, Authorities},
     offset \in {0, MaxPayload - 1},
     bytes \in {<<170>>, <<170, 187>>}}

ProcessDeployInputs ==
  {Input(Instr(<<"payer", "pd", "prog", "buf2", "rent", "clock", "system", "authA">>,
               {"payer", "authA"}, {}, 0, << >>, maxDataLen, FALSE),
         InstrData(UpgradeableLoaderInstrTypeDeployWithMaxDataLen,
                   DeployPayload(maxDataLen))) :
     maxDataLen \in {0, MaxPayload}}

ProcessUpgradeInputs ==
  {Input(Instr(<<"pd", "prog", b, "payer", "rent", "clock", "authA">>,
               Authorities, {}, 0, << >>, 0, FALSE),
         InstrData(UpgradeableLoaderInstrTypeUpgrade, << >>)) :
     b \in {"buf", "buf2", "richBuf"}}

\* Instruction data shorter than the opcode.
ShortData == {<< >>, <<3>>, <<3, 0, 0>>}

\* Instruction data of an opcode the dispatcher has no case for: SetAuthority
\* (4), Close (5), ExtendProgram (6, with its u32), SetAuthorityChecked (7),
\* and an opcode whose low byte is that of InitializeBuffer.
UnknownOpcodeData ==
  {InstrData(4, << >>), InstrData(5, << >>), InstrData(6, <<1, 0, 0, 0>>),
   InstrData(7, << >>), InstrData(256, << >>)}

\* Instruction data of Write or DeployWithMaxDataLen cut short: no offset, a
\* partial offset, no length, fewer bytes than the length, a length that does
\* not end; no max_data_len, seven of its eight bytes.
TruncatedPayloadData ==
  {InstrData(UpgradeableLoaderInstrTypeWrite, << >>),
   InstrData(UpgradeableLoaderInstrTypeWrite, <<0, 0>>),
   InstrData(UpgradeableLoaderInstrTypeWrite, <<0, 0, 0, 0>>),
   InstrData(UpgradeableLoaderInstrTypeWrite, <<0, 0, 0, 0, 2, 170>>),
   InstrData(UpgradeableLoaderInstrTypeWrite, <<0, 0, 0, 0, 128>>),
   InstrData(UpgradeableLoaderInstrTypeDeployWithMaxDataLen, << >>),
   InstrData(UpgradeableLoaderInstrTypeDeployWithMaxDataLen, <<2, 0, 0, 0, 0, 0, 0>>)}

MalformedData == ShortData \cup UnknownOpcodeData \cup TruncatedPayloadData

\* The accounts malformed data arrives with: those of a Write and of an
\* Upgrade that the handlers accept.
MalformedInstrs ==
  {Instr(<<"buf", "authA">>, Authorities, {}, 0, <<170>>, 0, FALSE),
   Instr(<<"pd", "prog", "buf2", "payer", "rent", "clock", "authA">>,
         Authorities, {}, 0, << >>, 0, FALSE)}

ProcessMalformedInputs ==
  {Input(ix, data) : ix \in MalformedInstrs, data \in MalformedData}

ProcessInputs ==
  ProcessInitializeBufferInputs \cup ProcessWriteInputs \cup ProcessDeployInputs
    \cup ProcessUpgradeInputs \cup ProcessMalformedInputs

\* The program account BpfLoaderProgramExecute borrows.
ProgramAccount(key, owner, executable) == Account(key, owner, 1, << >>, executable)

UpgradeableLoaderProgram ==
  ProgramAccount(BpfLoaderUpgradeableAddr, NativeLoaderAddr, TRUE)
\* The legacy and the deprecated loader, and a native program that is no
\* loader.
OtherNativePrograms ==
  {ProgramAccount(BpfLoaderAddr, NativeLoaderAddr, TRUE),
   ProgramAccount(BpfLoaderDeprecatedAddr, NativeLoaderAddr, TRUE),
   ProgramAccount(SystemProgramAddr, NativeLoaderAddr, TRUE)}

\* The instructions BpfLoaderProgramExecute is entered with: any program
\* account with an instruction the upgradeable loader accepts, and the
\* upgradeable loader with well-formed and malformed instructions.
ExecuteInputs(accts) ==
  {[program |-> program, ix |-> input.ix, data |-> input.data] :
     program \in OtherNativePrograms \cup {accts["prog"], accts["buf"]},
     input \in {Input(Instr(<<"buf", "authA">>, Authorities, {}, 0, <<170>>, 0, FALSE),
                      InstrData(UpgradeableLoaderInstrTypeWrite,
                                WritePayload(0, <<170>>)))}}
  \cup
  {[program |-> UpgradeableLoaderProgram, ix |-> input.ix, data |-> input.data] :
     input \in (ProcessInputs \ ProcessMalformedInputs)
                 \cup {Input(ix, data) : ix \in MalformedInstrs,
                                          data \in {<< >>, InstrData(4, << >>)}}}

\* The compute units a transaction may have left when the loader is entered.
ComputeBudgets ==
  {CUDefaultLoaderComputeUnits - 1, CUDeprecatedLoaderComputeUnits - 1,
   CUUpgradeableLoaderComputeUnits - 1,
   CUUpgradeableLoaderComputeUnits + CUDefaultLoaderComputeUnits}

\* ------------------------------------------------------ the loader's entry

RanProcess(ix, data, res) ==
  [op |-> "Process", ix |-> ix, err |-> res.err, clock |-> clock,
   pre |-> accounts, post |-> res.accts, data |-> data, handler |-> res.handler]

RanExecute(input, res) ==
  [op |-> "Execute", ix |-> input.ix, err |-> res.err, clock |-> clock,
   pre |-> accounts, post |-> res.accts, data |-> input.data,
   handler |-> res.handler, program |-> input.program, meter |-> meter,
   calls |-> res.calls]

\* The successful Upgrades of each account, after the dispatcher has returned.
CountUpgrade(ix, res) ==
  IF res.err = InstrOK /\ res.handler = "Upgrade"
  THEN [upgrades EXCEPT ![ix.accts[1]] = @ + 1]
  ELSE upgrades

\* The buffers consumed, after the dispatcher has returned.
CountConsumed(ix, res) ==
  IF res.err = InstrOK /\ res.handler = "Upgrade"
  THEN [consumed EXCEPT ![ix.accts[3]] = @ + 1]
  ELSE consumed

\* The host keeps what the dispatcher did (see Commit) and records the
\* instruction.
ProcessReturns(input, res) ==
  /\ accounts' = Commit(res)
  /\ last' = RanProcess(input.ix, input.data, res)
  /\ upgrades' = CountUpgrade(input.ix, res)
  /\ consumed' = CountConsumed(input.ix, res)

\* The same for the loader's entry point; the units consumed stay consumed.
ExecuteReturns(input, res) ==
  /\ accounts' = Commit(res)
  /\ meter' = res.meter
  /\ last' = RanExecute(input, res)
  /\ upgrades' = CountUpgrade(input.ix, res)
  /\ consumed' = CountConsumed(input.ix, res)

LoaderInit ==
  /\ rent \in {0, 1}
  /\ clock = 0
  /\ \E bufKind \in BufKinds, progKind \in ProgKinds :
       accounts = Ledger(bufKind, progKind, rent)
  /\ last = Idle
  /\ upgrades = [a \in TxAccounts |-> 0]
  /\ consumed = [a \in TxAccounts |-> 0]
  /\ meter \in ComputeBudgets
  /\ verify = NotVerifying

\* The host hands an instruction of the upgradeable loader to its dispatcher.
Process ==
  /\ last = Idle
  /\ \E input \in ProcessInputs :
       ProcessReturns(input,
         ProcessUpgradeableLoaderInstruction(accounts, input.ix, input.data,
                                             clock, rent))
  /\ UNCHANGED <<clock, rent, meter, verify>>

\* The host enters the loader for an instruction of a program account.
Execute ==
  /\ last = Idle
  /\ \E input \in ExecuteInputs(accounts) :
       ExecuteReturns(input,
         BpfLoaderProgramExecute(accounts, input.ix, input.data, input.program,
                                 meter, clock, rent))
  /\ UNCHANGED <<clock, rent, verify>>

LoaderNext ==
  \/ Process
  \/ Execute
  \/ Pop
  \/ AdvanceClock

LoaderSpec == LoaderInit /\ [][LoaderNext]_vars

\* ------------------------------------------------------------- verify-data

\* slotBounds: the lowest slot of the meta table and one past the highest.
slotBounds(lowest, highest) == [low |-> lowest, high |-> highest + 1]

\* --stat-interval: 0 switches the stats off; the default is 5 seconds.
StatIntervals == {0, 5}

\* run() is entered: the flags are read, the blockstore is open; `running`
\* holds the workers whose goroutine has not returned, `failed` whether the
\* group has recorded an error, `ctxDone` whether the group's context is
\* cancelled, `exitCode` the code os.Exit was called with (-1: not yet).
VerifyInit ==
  /\ rent = 0
  /\ clock = 0
  /\ accounts = Ledger("uninitialized", "undeployed", 0)
  /\ last = Idle
  /\ upgrades = [a \in TxAccounts |-> 0]
  /\ consumed = [a \in TxAccounts |-> 0]
  /\ meter = 0
  /\ \E lowest \in 0..1, total \in 1..MaxTotal, workers \in 1..MaxWorkers,
        statInterval \in StatIntervals :
       verify = [pc |-> "run",
                 slotLo |-> slotBounds(lowest, lowest + total - 1).low,
                 slotHi |-> slotBounds(lowest, lowest + total - 1).high,
                 workers |-> workers, step |-> 0, cursor |-> 0, i |-> 0,
                 segments |-> << >>, statInterval |-> statInterval,
                 stats |-> "none", ticks |-> 0, running |-> {},
                 failed |-> FALSE, ctxDone |-> FALSE, exitCode |-> -1,
                 done |-> FALSE]

\* The segment [wLo, wHi) run() computes for the worker it is at.
Segment(v) ==
  [wLo |-> v.cursor,
   wHi |-> IF v.cursor + v.step > v.slotHi THEN v.slotHi ELSE v.cursor + v.step]

\* run(), lines 56-73: the number of slots, the slots per worker, the cursor.
VerifyPlan ==
  /\ verify.pc = "run"
  /\ verify' =
       IF verify.slotLo > verify.slotHi THEN [verify EXCEPT !.pc = "panic"]
       ELSE [verify EXCEPT
               !.pc = "stats",
               !.step = IF (verify.slotHi - verify.slotLo) \div verify.workers = 0
                        THEN 1
                        ELSE (verify.slotHi - verify.slotLo) \div verify.workers,
               !.cursor = verify.slotLo]
  /\ UNCHANGED <<accounts, clock, rent, last, upgrades, meter, consumed>>

\* run(), lines 75-103: the group and its context are made; with a positive
\* stat interval the stats goroutine is started in the group.
VerifyStartStats ==
  /\ verify.pc = "stats"
  /\ verify' = [verify EXCEPT
                  !.pc = "loop",
                  !.stats = IF verify.statInterval > 0 THEN "running" ELSE "none"]
  /\ UNCHANGED <<accounts, clock, rent, last, upgrades, meter, consumed>>

\* run(), lines 105-127: one turn of the loop; the worker is started on its
\* segment in the group, or the loop is left when the segment is empty.
VerifyAssign ==
  /\ verify.pc = "loop"
  /\ verify.i < verify.workers
  /\ verify' =
       IF Segment(verify).wLo >= Segment(verify).wHi
       THEN [verify EXCEPT !.pc = "wait", !.cursor = Segment(verify).wHi]
       ELSE [verify EXCEPT
               !.cursor = Segment(verify).wHi,
               !.i = @ + 1,
               !.segments = Append(@, Segment(verify)),
               !.running = @ \cup {verify.i}]
  /\ UNCHANGED <<accounts, clock, rent, last, upgrades, meter, consumed>>

\* run(), lines 105 and 129-130: every worker has been started; run() calls
\* group.Wait().
VerifyWait ==
  /\ verify.pc = "loop"
  /\ verify.i >= verify.workers
  /\ verify' = [verify EXCEPT !.pc = "wait"]
  /\ UNCHANGED <<accounts, clock, rent, last, upgrades, meter, consumed>>

\* Lines 124-126: the goroutine of worker w returns what w.run(ctx) returned;
\* the group records the first error and cancels its context.
WorkerReturns(w, ok) ==
  /\ w \in verify.running
  /\ verify' = [verify EXCEPT
                  !.running = @ \ {w},
                  !.failed = @ \/ ~ok,
                  !.ctxDone = @ \/ ~ok]
  /\ UNCHANGED <<accounts, clock, rent, last, upgrades, meter, consumed>>

WorkerReturn == \E w \in 0..(MaxWorkers - 1), ok \in BOOLEAN : WorkerReturns(w, ok)

\* Lines 94-100, case <-ticker.C: the stats goroutine logs the counters.
StatsTick ==
  /\ verify.stats = "running"
  /\ verify.ticks < MaxTicks
  /\ verify' = [verify EXCEPT !.ticks = @ + 1]
  /\ UNCHANGED <<accounts, clock, rent, last, upgrades, meter, consumed>>

\* Lines 94-97, case <-ctx.Done(): the stats goroutine returns nil.
StatsReturn ==
  /\ verify.stats = "running"
  /\ verify.ctxDone
  /\ verify' = [verify EXCEPT !.stats = "returned"]
  /\ UNCHANGED <<accounts, clock, rent, last, upgrades, meter, consumed>>

\* run(), lines 129-140: group.Wait() returns when every goroutine of the
\* group has returned (it cancels the context then); the outcome is logged
\* and the process exits.
VerifyExit ==
  /\ verify.pc = "wait"
  /\ verify.running = {}
  /\ verify.stats # "running"
  /\ verify' = [verify EXCEPT
                  !.pc = "exit",
                  !.ctxDone = TRUE,
                  !.done = ~verify.failed,
                  !.exitCode = IF verify.failed THEN 1 ELSE 0]
  /\ UNCHANGED <<accounts, clock, rent, last, upgrades, meter, consumed>>

VerifyNext ==
  \/ VerifyPlan
  \/ VerifyStartStats
  \/ VerifyAssign
  \/ VerifyWait
  \/ WorkerReturn
  \/ StatsTick
  \/ StatsReturn
  \/ VerifyExit

VerifySpec == VerifyInit /\ [][VerifyNext]_vars

\* The Go scheduler runs every goroutine that can take a step: run() itself,
\* the workers (each returns in the end), the stats goroutine.
VerifyFairness ==
  /\ WF_vars(VerifyPlan)
  /\ WF_vars(VerifyStartStats)
  /\ WF_vars(VerifyAssign)
  /\ WF_vars(VerifyWait)
  /\ WF_vars(WorkerReturn)
  /\ WF_vars(StatsTick)
  /\ WF_vars(StatsReturn)
  /\ WF_vars(VerifyExit)

VerifyFairSpec == VerifyInit /\ [][VerifyNext]_vars /\ VerifyFairness

\* ------------------------------------------------------------ properties

\* The decoded state of account a in the ledger `accts`.
StateOf(accts, a) == unmarshalUpgradeableLoaderState(accts[a].data)

DecodesAs(accts, a, type) ==
  StateOf(accts, a).err = InstrOK /\ StateOf(accts, a).state.Type = type

\* The payload that follows a header of `meta` bytes.
PayloadOf(accts, a, meta) == SubSeq(accts[a].data, meta + 1, Len(accts[a].data))

\* C1: for every account data b that decodes, the encoding of the decoded
\* state decodes again, to the same state: decode(encode(decode(b))) = decode(b).
C1_RoundTrip ==
  \A a \in TxAccounts :
    LET d == unmarshalUpgradeableLoaderState(accounts[a].data)
        again == unmarshalUpgradeableLoaderState(marshalUpgradeableLoaderState(d.state))
    IN  d.err = InstrOK => again.err = InstrOK /\ again.state = d.state

\* C2: after a successful InitializeBuffer the buffer account decodes as
\* Buffer{authority = Some(key of account 1)}, and a Write of one byte at
\* offset 0 signed by account 1 then succeeds and stores the byte at index 37.
C2_InitializeBufferThenWrite ==
  (last.op = "InitializeBuffer" /\ last.err = InstrOK) =>
    LET buffer == last.ix.accts[1]
        authority == last.ix.accts[2]
        write == Instr(<<buffer, authority>>, {authority}, {}, 0, <<222>>, 0, FALSE)
        wrote == UpgradeableLoaderWrite(last.post, write,
                                        [Offset |-> 0, Bytes |-> <<222>>])
    IN  /\ DecodesAs(last.post, buffer, UpgradeableLoaderStateTypeBuffer)
        /\ StateOf(last.post, buffer).state.Buffer.AuthorityAddress
             = last.pre[authority].key
        /\ Len(last.post[buffer].data) > upgradeableLoaderSizeOfBufferMetaData =>
             /\ wrote.err = InstrOK
             /\ wrote.accts[buffer].data[upgradeableLoaderSizeOfBufferMetaData + 1] = 222

\* The error the claim's order of checks gives a Write, read off the accounts
\* before it: not Buffer, no authority, another authority, no signature.
WriteExpected ==
  LET d == StateOf(last.pre, last.ix.accts[1])
  IN  IF d.err # InstrOK \/ d.state.Type # UpgradeableLoaderStateTypeBuffer
      THEN {InstrErrInvalidAccountData}
      ELSE IF d.state.Buffer.AuthorityAddress = NilKey THEN {InstrErrImmutable}
      ELSE IF d.state.Buffer.AuthorityAddress # last.pre[last.ix.accts[2]].key
      THEN {InstrErrIncorrectAuthority}
      ELSE IF ~last.ix.signers[2] THEN {InstrErrMissingRequiredSignature}
      ELSE {InstrOK, InstrErrAccountDataTooSmall}

\* C3: a Write (on two accounts) succeeds only if account 0 is a Buffer whose
\* authority is the key of account 1 and account 1 signed; otherwise the error
\* is the first of InvalidAccountData, Immutable, IncorrectAuthority,
\* MissingRequiredSignature in that order of checks.
C3_WriteAuthorityOrder ==
  (last.op = "Write" /\ Len(last.ix.accts) >= 2) => last.err \in WriteExpected

\* An unsigned Write naming the buffer's own authority is refused for the
\* missing signature, and one naming another key that signed for the authority.
C3_Witness ==
  /\ last.op = "Write"
  /\ Len(last.ix.accts) >= 2
  /\ last.err = InstrErrMissingRequiredSignature
  /\ ~last.ix.signers[2]

\* C4: a successful Write(offset, bytes) leaves bytes at 37+offset and changes
\* nothing else: no other byte of the buffer, not its length or lamports, and
\* no other account.
C4_WriteFrame ==
  (last.op = "Write" /\ last.err = InstrOK) =>
    LET buffer == last.ix.accts[1]
        lo == upgradeableLoaderSizeOfBufferMetaData + last.ix.Offset
        n == Len(last.ix.Bytes)
        old == last.pre[buffer].data
        new == last.post[buffer].data
    IN  /\ Len(new) = Len(old)
        /\ \A i \in 1..Len(new) :
             new[i] = IF i > lo /\ i <= lo + n THEN last.ix.Bytes[i - lo] ELSE old[i]
        /\ [last.post[buffer] EXCEPT !.data = old] = last.pre[buffer]
        /\ \A a \in TxAccounts \ {buffer} : last.post[a] = last.pre[a]
        /\ accounts = last.post

C4_Witness ==
  /\ last.op = "Write"
  /\ last.err = InstrOK
  /\ last.ix.Bytes # << >>
  /\ last.post[last.ix.accts[1]].data # last.pre[last.ix.accts[1]].data

\* The Write passes the checks of state, authority and signature.
WriteAuthorized ==
  /\ Len(last.ix.accts) >= 2
  /\ DecodesAs(last.pre, last.ix.accts[1], UpgradeableLoaderStateTypeBuffer)
  /\ StateOf(last.pre, last.ix.accts[1]).state.Buffer.AuthorityAddress
       = last.pre[last.ix.accts[2]].key
  /\ last.ix.signers[2]

\* C5: an authorized Write whose end 37 + offset + len(bytes) lies beyond the
\* buffer's data fails with AccountDataTooSmall and changes nothing, whatever
\* the offset; so an accepted Write always lies within the data.
C5_WritePastEnd ==
  (last.op = "Write" /\ WriteAuthorized) =>
    LET end == upgradeableLoaderSizeOfBufferMetaData + last.ix.Offset
                 + Len(last.ix.Bytes)
        len == Len(last.pre[last.ix.accts[1]].data)
    IN  /\ end > len => last.err = InstrErrAccountDataTooSmall /\ last.post = last.pre
        /\ last.err = InstrOK => end <= len

C5_Witness ==
  /\ last.op = "Write"
  /\ WriteAuthorized
  /\ last.ix.Offset = U32Max
  /\ last.err = InstrErrAccountDataTooSmall

\* The instruction has the eight accounts of a deploy, the sysvars in place.
DeployWellFormed ==
  /\ last.op = "DeployWithMaxDataLen"
  /\ Len(last.ix.accts) >= 8
  /\ last.pre[last.ix.accts[5]].key = SysvarRentAddr
  /\ last.pre[last.ix.accts[6]].key = SysvarClockAddr

\* The program account (position 2) is Uninitialized, large enough, rent exempt.
DeployProgramAccountValid ==
  LET program == last.ix.accts[3]
  IN  /\ DecodesAs(last.pre, program, UpgradeableLoaderStateTypeUninitialized)
      /\ Len(last.pre[program].data) >= upgradeableLoaderSizeOfProgram
      /\ last.pre[program].lamports
           >= MinimumBalance(rent, Len(last.pre[program].data))

\* The buffer account (position 3) is a Buffer with a payload, whose authority
\* is account 7, which signed.
DeployBufferValid ==
  LET buffer == last.ix.accts[4]
  IN  /\ DecodesAs(last.pre, buffer, UpgradeableLoaderStateTypeBuffer)
      /\ StateOf(last.pre, buffer).state.Buffer.AuthorityAddress
           = last.pre[last.ix.accts[8]].key
      /\ last.ix.signers[8]
      /\ Len(last.pre[buffer].data) > upgradeableLoaderSizeOfBufferMetaData

DeployBufferDataLen ==
  Len(last.pre[last.ix.accts[4]].data) - upgradeableLoaderSizeOfBufferMetaData

\* Every stated precondition of a deploy, the nested CreateAccount's included.
DeployPreconditions ==
  LET payer == last.ix.accts[1]
      programData == last.ix.accts[2]
      program == last.ix.accts[3]
      buffer == last.ix.accts[4]
      space == upgradeableLoaderSizeOfProgramDataMetaData + last.ix.MaxDataLen
      minBalance == MinimumBalance(rent, space)
  IN  /\ DeployWellFormed
      /\ Cardinality({last.ix.accts[i] : i \in 1..8}) = 8
      /\ DeployProgramAccountValid
      /\ DeployBufferValid
      /\ last.ix.MaxDataLen >= DeployBufferDataLen
      /\ space <= MaxPermittedDataLength
      /\ last.pre[programData].key
           = FindProgramAddress(last.pre[program].key, BpfLoaderUpgradeableAddr).addr
      /\ last.ix.signers[1]
      /\ last.pre[programData].lamports = 0
      /\ last.pre[programData].data = << >>
      /\ last.pre[programData].owner = SystemProgramAddr
      /\ last.pre[payer].data = << >>
      /\ last.pre[payer].lamports + last.pre[buffer].lamports
           >= (IF minBalance > 1 THEN minBalance ELSE 1)

\* C6: a deploy that meets every precondition succeeds; afterwards the program
\* account is Program{program_data = key of account 1}, the program-data
\* account is ProgramData{slot = clock.slot, upgrade_authority = A} followed by
\* the buffer's payload, and the buffer has 0 lamports and 37 bytes.
C6_DeploySucceeds ==
  DeployPreconditions =>
    LET programData == last.ix.accts[2]
        program == last.ix.accts[3]
        buffer == last.ix.accts[4]
        pd == StateOf(last.post, programData)
    IN  /\ last.err = InstrOK
        /\ DecodesAs(last.post, program, UpgradeableLoaderStateTypeProgram)
        /\ StateOf(last.post, program).state.Program.ProgramDataAddress
             = last.pre[programData].key
        /\ DecodesAs(last.post, programData, UpgradeableLoaderStateTypeProgramData)
        /\ pd.state.ProgramData.Slot = last.clock
        /\ pd.state.ProgramData.UpgradeAuthorityAddress = last.pre[last.ix.accts[8]].key
        /\ SubSeq(last.post[programData].data,
                  upgradeableLoaderSizeOfProgramDataMetaData + 1,
                  upgradeableLoaderSizeOfProgramDataMetaData + DeployBufferDataLen)
             = PayloadOf(last.pre, buffer, upgradeableLoaderSizeOfBufferMetaData)
        /\ last.post[buffer].lamports = 0
        /\ Len(last.post[buffer].data) = upgradeableLoaderSizeOfBufferMetaData

\* C7: a deploy with a valid program account and a valid, signed buffer whose
\* payload is longer than max_data_len fails with AccountDataTooSmall.
C7_DeployUndersized ==
  (/\ DeployWellFormed
   /\ DeployProgramAccountValid
   /\ DeployBufferValid
   /\ last.ix.MaxDataLen < DeployBufferDataLen)
    => last.err = InstrErrAccountDataTooSmall

\* C8: in a well-formed deploy the program account decides the error in this
\* order: undecodable data InvalidAccountData, a state other than Uninitialized
\* AccountAlreadyInitialized, fewer than 36 bytes AccountDataTooSmall, too few
\* lamports ExecutableAccountNotRentExempt; and then no account has changed.
C8_DeployProgramAccountOrder ==
  DeployWellFormed =>
    LET program == last.ix.accts[3]
        d == StateOf(last.pre, program)
        len == Len(last.pre[program].data)
        uninitialized ==
          d.err = InstrOK /\ d.state.Type = UpgradeableLoaderStateTypeUninitialized
    IN  /\ d.err # InstrOK => last.err = InstrErrInvalidAccountData
        /\ d.err = InstrOK /\ ~uninitialized
             => last.err = InstrErrAccountAlreadyInitialized
        /\ uninitialized /\ len < upgradeableLoaderSizeOfProgram
             => last.err = InstrErrAccountDataTooSmall
        /\ (/\ uninitialized
            /\ len >= upgradeableLoaderSizeOfProgram
            /\ last.pre[program].lamports < MinimumBalance(rent, len))
             => last.err = InstrErrExecutableAccountNotRentExempt
        /\ ~DeployProgramAccountValid => last.post = last.pre /\ accounts = last.pre

\* A program account that is Uninitialized and long enough but not rent exempt.
C8_Witness ==
  /\ DeployWellFormed
  /\ last.err = InstrErrExecutableAccountNotRentExempt
  /\ last.post = last.pre

\* C9: after a successful Upgrade the program-data account (position 0)
\* decodes as ProgramData{slot = clock.slot, upgrade_authority = Some(key of
\* account 6)}.
C9_UpgradeStoresSlot ==
  (last.op = "Upgrade" /\ last.err = InstrOK) =>
    LET pd == StateOf(last.post, last.ix.accts[1])
    IN  /\ pd.err = InstrOK
        /\ pd.state.Type = UpgradeableLoaderStateTypeProgramData
        /\ pd.state.ProgramData.Slot = last.clock
        /\ pd.state.ProgramData.UpgradeAuthorityAddress = last.pre[last.ix.accts[7]].key

\* C10: no program-data account is successfully upgraded twice while the clock
\* shows the same slot.
C10_OneUpgradePerSlot == \A a \in TxAccounts : upgrades[a] <= 1

\* An Upgrade that names its seven accounts, the rent and clock sysvars at
\* positions 4 and 5.
UpgradeWellFormed ==
  /\ last.op = "Upgrade"
  /\ Len(last.ix.accts) >= 7
  /\ last.pre[last.ix.accts[5]].key = SysvarRentAddr
  /\ last.pre[last.ix.accts[6]].key = SysvarClockAddr

\* The program account (position 1) is an executable, writable account of the
\* loader whose Program state names the account at position 0.
UpgradeProgramAccountValid ==
  LET program == last.ix.accts[2]
  IN  /\ last.pre[program].executable
      /\ last.ix.writable[2]
      /\ last.pre[program].owner = BpfLoaderUpgradeableAddr
      /\ DecodesAs(last.pre, program, UpgradeableLoaderStateTypeProgram)
      /\ StateOf(last.pre, program).state.Program.ProgramDataAddress
           = last.pre[last.ix.accts[1]].key

\* The buffer (position 2) is a Buffer whose authority is the key of the
\* account at position 6.
UpgradeBufferAuthorityValid ==
  LET buffer == last.ix.accts[3]
  IN  /\ DecodesAs(last.pre, buffer, UpgradeableLoaderStateTypeBuffer)
      /\ StateOf(last.pre, buffer).state.Buffer.AuthorityAddress
           = last.pre[last.ix.accts[7]].key

\* The number of payload bytes in the buffer before the Upgrade.
UpgradeBufferDataLen ==
  Len(PayloadOf(last.pre, last.ix.accts[3], upgradeableLoaderSizeOfBufferMetaData))

\* The buffer's payload fits the program-data account, and the lamports of
\* the two cover the rent of the program-data account.
UpgradeFundsValid ==
  LET programData == last.pre[last.ix.accts[1]]
      buffer == last.pre[last.ix.accts[3]]
      minBalance == MinimumBalance(rent, Len(programData.data))
      sum == programData.lamports + buffer.lamports
  IN  /\ UpgradeBufferDataLen > 0
      /\ Len(programData.data)
           >= upgradeableLoaderSizeOfProgramDataMetaData + UpgradeBufferDataLen
      /\ (IF sum > U64Max THEN U64Max ELSE sum)
           >= (IF minBalance > 1 THEN minBalance ELSE 1)

\* Every check of an Upgrade that precedes the program-data account's state
\* passes.
UpgradePassesEarlier ==
  /\ UpgradeWellFormed
  /\ UpgradeProgramAccountValid
  /\ UpgradeBufferAuthorityValid
  /\ last.ix.signers[7]
  /\ UpgradeFundsValid

\* The ProgramData state of the account at position 0 before the Upgrade.
UpgradeStoredProgramData == StateOf(last.pre, last.ix.accts[1]).state.ProgramData

\* C11: an Upgrade that passes the checks of the program account, the buffer,
\* the data length and the funds, on a program-data account whose stored slot
\* is the clock's slot, fails with InvalidArgument whatever upgrade authority is
\* stored.
C11_SameSlotInvalidArgument ==
  (/\ UpgradePassesEarlier
   /\ DecodesAs(last.pre, last.ix.accts[1], UpgradeableLoaderStateTypeProgramData)
   /\ UpgradeStoredProgramData.Slot = last.clock)
  => last.err = InstrErrInvalidArgument

\* An Upgrade in the slot stored in an immutable program-data account is
\* refused for the slot, not for the missing authority.
C11_Witness ==
  /\ UpgradePassesEarlier
  /\ DecodesAs(last.pre, last.ix.accts[1], UpgradeableLoaderStateTypeProgramData)
  /\ UpgradeStoredProgramData.Slot = last.clock
  /\ UpgradeStoredProgramData.UpgradeAuthorityAddress = NilKey
  /\ last.err = InstrErrInvalidArgument

\* C12: an Upgrade succeeds only if the account at position 6 signed and its
\* key k is both the buffer's authority and the program-data account's upgrade
\* authority; with every earlier check passed, no stored upgrade authority
\* gives Immutable and another key IncorrectAuthority, and an account 6 that
\* did not sign gives MissingRequiredSignature.
C12_UpgradeAuthority ==
  LET k == last.pre[last.ix.accts[7]].key
  IN  /\ (last.op = "Upgrade" /\ last.err = InstrOK) =>
           /\ last.ix.signers[7]
           /\ UpgradeBufferAuthorityValid
           /\ DecodesAs(last.pre, last.ix.accts[1],
                        UpgradeableLoaderStateTypeProgramData)
           /\ UpgradeStoredProgramData.UpgradeAuthorityAddress = k
      /\ (/\ UpgradePassesEarlier
          /\ DecodesAs(last.pre, last.ix.accts[1],
                       UpgradeableLoaderStateTypeProgramData)
          /\ UpgradeStoredProgramData.Slot # last.clock) =>
           /\ UpgradeStoredProgramData.UpgradeAuthorityAddress = NilKey
                => last.err = InstrErrImmutable
           /\ UpgradeStoredProgramData.UpgradeAuthorityAddress \notin {NilKey, k}
                => last.err = InstrErrIncorrectAuthority
      /\ (/\ UpgradeWellFormed
          /\ UpgradeProgramAccountValid
          /\ UpgradeBufferAuthorityValid
          /\ ~last.ix.signers[7]) =>
           last.err = InstrErrMissingRequiredSignature

\* A signed Upgrade from a buffer of authority k, on a program-data account
\* whose upgrade authority is another key, is refused with IncorrectAuthority.
C12_Witness ==
  /\ UpgradePassesEarlier
  /\ DecodesAs(last.pre, last.ix.accts[1], UpgradeableLoaderStateTypeProgramData)
  /\ UpgradeStoredProgramData.Slot # last.clock
  /\ UpgradeStoredProgramData.UpgradeAuthorityAddress
       \notin {NilKey, last.pre[last.ix.accts[7]].key}
  /\ last.err = InstrErrIncorrectAuthority

\* The lamports held by the accounts named in S.
RECURSIVE LamportsOf(_, _)
LamportsOf(accts, S) ==
  IF S = {} THEN 0
  ELSE LET a == CHOOSE x \in S : TRUE
       IN  accts[a].lamports + LamportsOf(accts, S \ {a})

\* C13: every successful Upgrade conserves lamports over the program-data
\* account, the spill account and the buffer, also when the lamports of the
\* program-data account and the buffer add up to more than a u64 holds.
C13_UpgradeConservesLamports ==
  (last.op = "Upgrade" /\ last.err = InstrOK) =>
    LET touched == {last.ix.accts[1], last.ix.accts[3], last.ix.accts[4]}
    IN  LamportsOf(last.post, touched) = LamportsOf(last.pre, touched)

\* C14 as stated: after every successful Upgrade the buffer holds no
\* lamports and the program-data account holds rent.MinimumBalance of its data
\* length, whatever the rent function returns, 0 included.
C14_AsStated ==
  (last.op = "Upgrade" /\ last.err = InstrOK) =>
    /\ last.post[last.ix.accts[3]].lamports = 0
    /\ last.post[last.ix.accts[1]].lamports
         = MinimumBalance(rent, Len(last.post[last.ix.accts[1]].data))

\* C14, amended: after every successful Upgrade the buffer holds no lamports
\* and the program-data account holds the larger of 1 and rent.MinimumBalance
\* of its data length.
C14_LamportsAfterUpgrade ==
  (last.op = "Upgrade" /\ last.err = InstrOK) =>
    LET minBalance == MinimumBalance(rent, Len(last.post[last.ix.accts[1]].data))
    IN  /\ last.post[last.ix.accts[3]].lamports = 0
        /\ last.post[last.ix.accts[1]].lamports
             = (IF minBalance > 1 THEN minBalance ELSE 1)

\* A successful Upgrade under a rent function that returns 0 leaves one
\* lamport in the program-data account.
C14_Witness ==
  /\ last.op = "Upgrade" /\ last.err = InstrOK
  /\ MinimumBalance(rent, Len(last.post[last.ix.accts[1]].data)) = 0
  /\ last.post[last.ix.accts[1]].lamports = 1
  /\ last.pre[last.ix.accts[3]].lamports > 0

\* C15: after every successful Upgrade the program-data account holds the
\* buffer's former payload right after its 45-byte header and zero bytes from
\* there to its end, its length is unchanged, and the buffer is 37 bytes long.
C15_UpgradePayload ==
  (last.op = "Upgrade" /\ last.err = InstrOK) =>
    LET pd == last.post[last.ix.accts[1]].data
        n == UpgradeBufferDataLen
        meta == upgradeableLoaderSizeOfProgramDataMetaData
    IN  /\ SubSeq(pd, meta + 1, meta + n)
             = PayloadOf(last.pre, last.ix.accts[3],
                         upgradeableLoaderSizeOfBufferMetaData)
        /\ \A i \in (meta + n + 1)..Len(pd) : pd[i] = 0
        /\ Len(pd) = Len(last.pre[last.ix.accts[1]].data)
        /\ Len(last.post[last.ix.accts[3]].data)
             = upgradeableLoaderSizeOfBufferMetaData

\* A successful Upgrade from a buffer whose payload is shorter than the
\* program bytes it replaces, all of them nonzero before.
C15_Witness ==
  /\ last.op = "Upgrade" /\ last.err = InstrOK
  /\ LET before == last.pre[last.ix.accts[1]].data
         meta == upgradeableLoaderSizeOfProgramDataMetaData
     IN  /\ Len(before) > meta + UpgradeBufferDataLen
         /\ \A i \in (meta + 1)..Len(before) : before[i] # 0
  /\ \E i \in 1..UpgradeBufferDataLen :
       last.pre[last.ix.accts[3]].data[upgradeableLoaderSizeOfBufferMetaData + i] # 0

\* C16: the dispatcher returns InvalidInstructionData, runs no handler and
\* leaves every account as it was for instruction data shorter than 4 bytes,
\* of an opcode outside 0..3 (4, 5, 6 and 7 among them), or of opcode 1 or 2
\* with a truncated payload.
C16_MalformedDataRejected ==
  (last.op = "Process" /\ last.data \in MalformedData)
  => /\ last.err = InstrErrInvalidInstructionData
     /\ last.handler = "none"
     /\ last.post = last.pre
     /\ accounts = last.pre

\* A Write whose bytes are fewer than their length says has been rejected; it
\* came with the accounts of a Write the handler accepts (a Buffer of
\* authority authA, authA signing).
C16_Witness ==
  /\ last.op = "Process"
  /\ last.data = InstrData(UpgradeableLoaderInstrTypeWrite, <<0, 0, 0, 0, 2, 170>>)
  /\ last.ix.accts = <<"buf", "authA">>
  /\ DecodesAs(last.pre, "buf", UpgradeableLoaderStateTypeBuffer)
  /\ StateOf(last.pre, "buf").state.Buffer.AuthorityAddress = KeyA
  /\ last.err = InstrErrInvalidInstructionData

\* C17: a handler that returns an error has left every account as it was
\* before it ran: data, data length, lamports and executable flag.
C17_ErrorLeavesAccountsUnchanged ==
  (/\ last.op \in {"InitializeBuffer", "Write", "DeployWithMaxDataLen", "Upgrade"}
   /\ last.err # InstrOK)
  => last.post = last.pre

\* The slots of the segments handed to the workers.
RECURSIVE SlotsOf(_)
SlotsOf(segments) ==
  IF segments = << >> THEN {}
  ELSE (Head(segments).wLo)..(Head(segments).wHi - 1) \cup SlotsOf(Tail(segments))

\* C18: when verify-data has handed out its segments and waits for the
\* workers, the segments cover every slot of [slotLo, slotHi).
C18_SegmentsCoverRange ==
  verify.pc = "wait" => SlotsOf(verify.segments) = verify.slotLo..(verify.slotHi - 1)

\* The error the claim's order of checks gives the program account of an
\* Upgrade, read off the accounts before it; InstrOK when all five pass.
UpgradeProgramAccountExpected ==
  LET program == last.ix.accts[2]
  IN  IF ~last.pre[program].executable THEN InstrErrAccountNotExecutable
      ELSE IF ~last.ix.writable[2] THEN InstrErrInvalidArgument
      ELSE IF last.pre[program].owner # BpfLoaderUpgradeableAddr
      THEN InstrErrIncorrectProgramId
      ELSE IF ~DecodesAs(last.pre, program, UpgradeableLoaderStateTypeProgram)
      THEN InstrErrInvalidAccountData
      ELSE IF StateOf(last.pre, program).state.Program.ProgramDataAddress
                # last.pre[last.ix.accts[1]].key
      THEN InstrErrInvalidArgument
      ELSE InstrOK

\* C19: an Upgrade checks its program account in the order executable,
\* writable, owned by the loader, Program state, program-data address; the
\* first check that fails decides the error, whatever the buffer and the
\* program-data account hold.
C19_UpgradeProgramAccountOrder ==
  (UpgradeWellFormed /\ UpgradeProgramAccountExpected # InstrOK)
  => last.err = UpgradeProgramAccountExpected

\* An Upgrade of a program account that is neither executable nor writable,
\* from a buffer that does not decode, is refused with AccountNotExecutable.
C19_Witness ==
  /\ UpgradeWellFormed
  /\ ~last.pre[last.ix.accts[2]].executable
  /\ ~last.ix.writable[2]
  /\ StateOf(last.pre, last.ix.accts[3]).err # InstrOK
  /\ last.err = InstrErrAccountNotExecutable

\* The units BpfLoaderProgramExecute charges for the program id of the last
\* Execute.
UnitsCharged ==
  CASE last.program.key = BpfLoaderUpgradeableAddr -> CUUpgradeableLoaderComputeUnits
    [] last.program.key = BpfLoaderAddr -> CUDefaultLoaderComputeUnits
    [] last.program.key = BpfLoaderDeprecatedAddr -> CUDeprecatedLoaderComputeUnits

\* C20: entered for a program account of the native loader,
\* BpfLoaderProgramExecute consumes the units of the upgradeable loader once
\* and before it dispatches; when the meter has too few it returns the meter's
\* error and runs no handler. For the legacy and the deprecated loader it
\* consumes their units and then fails with UnsupportedProgramId, no account
\* modified.
C20_ComputeUnitsBeforeDispatch ==
  (/\ last.op = "Execute"
   /\ last.program.owner = NativeLoaderAddr
   /\ last.program.key
        \in {BpfLoaderUpgradeableAddr, BpfLoaderAddr, BpfLoaderDeprecatedAddr})
  => /\ last.calls # << >>
     /\ last.calls[1] = Consumed(UnitsCharged)
     /\ \A i \in 2..Len(last.calls) : last.calls[i].call # "Consume"
     /\ IF last.meter < UnitsCharged
        THEN /\ last.err = InstrErrComputationalBudgetExceeded
             /\ last.handler = "none"
             /\ last.calls = <<Consumed(UnitsCharged)>>
             /\ last.post = last.pre
        ELSE /\ meter = last.meter - UnitsCharged
             /\ IF last.program.key = BpfLoaderUpgradeableAddr
                THEN last.calls = <<Consumed(UnitsCharged), Processed>>
                ELSE /\ last.err = InstrErrUnsupportedProgramId
                     /\ last.calls = <<Consumed(UnitsCharged)>>
                     /\ last.handler = "none"
                     /\ last.post = last.pre
                     /\ accounts = last.pre

\* The upgradeable loader was entered with units to spare and a handler ran
\* to success after they were consumed.
C20_Witness ==
  /\ last.op = "Execute"
  /\ last.program = UpgradeableLoaderProgram
  /\ last.meter >= CUUpgradeableLoaderComputeUnits
  /\ last.handler = "Write"
  /\ last.err = InstrOK
  /\ meter = last.meter - CUUpgradeableLoaderComputeUnits

\* C21: InitializeBuffer, given its two accounts, on an account whose data
\* decodes to Buffer, Program or ProgramData fails with
\* AccountAlreadyInitialized and leaves the account's data, a stored authority
\* included, as it was.
C21_InitializeBufferAlreadyInitialized ==
  (/\ last.op = "InitializeBuffer"
   /\ Len(last.ix.accts) >= 2
   /\ StateOf(last.pre, last.ix.accts[1]).err = InstrOK
   /\ StateOf(last.pre, last.ix.accts[1]).state.Type
        \in {UpgradeableLoaderStateTypeBuffer, UpgradeableLoaderStateTypeProgram,
             UpgradeableLoaderStateTypeProgramData})
  => /\ last.err = InstrErrAccountAlreadyInitialized
     /\ last.post[last.ix.accts[1]].data = last.pre[last.ix.accts[1]].data
     /\ last.post = last.pre
     /\ accounts = last.pre

\* InitializeBuffer naming authB has been tried on a Buffer whose stored
\* authority is authA's key.
C21_Witness ==
  /\ last.op = "InitializeBuffer"
  /\ last.ix.accts = <<"buf", "authB">>
  /\ DecodesAs(last.pre, "buf", UpgradeableLoaderStateTypeBuffer)
  /\ StateOf(last.pre, "buf").state.Buffer.AuthorityAddress = KeyA
  /\ last.err = InstrErrAccountAlreadyInitialized
  /\ StateOf(accounts, "buf").state.Buffer.AuthorityAddress = KeyA

\* C22: Upgrade returns an instruction error and never crashes, whatever the
\* buffer account (position 2) holds: data that cannot be decoded gives an
\* error value.
C22_UpgradeNeverCrashes ==
  last.op = "Upgrade" => last.err # GoPanic

\* C23: verify-data terminates. Once run() waits for the group and every
\* worker has returned without an error, group.Wait() returns, "Done!" is
\* logged and the process exits with code 0, whatever the stat interval.
C23_VerifyTerminates ==
  (verify.pc = "wait" /\ verify.running = {} /\ ~verify.failed)
    ~> (verify.pc = "exit" /\ verify.done /\ verify.exitCode = 0)

\* The accounts that hold a ProgramData state without an upgrade authority
\* before the last instruction.
ImmutableProgramData ==
  {a \in TxAccounts :
     /\ DecodesAs(last.pre, a, UpgradeableLoaderStateTypeProgramData)
     /\ StateOf(last.pre, a).state.ProgramData.UpgradeAuthorityAddress = NilKey}

\* C24: a program-data account without an upgrade authority is immutable: no
\* InitializeBuffer, Write, DeployWithMaxDataLen or Upgrade, whatever its
\* accounts, signers and clock, changes a byte of its data, header included.
C24_ImmutableProgramData ==
  last.op \in {"InitializeBuffer", "Write", "DeployWithMaxDataLen", "Upgrade"}
  => \A a \in ImmutableProgramData :
       /\ last.post[a].data = last.pre[a].data
       /\ accounts[a].data = last.pre[a].data

\* An Upgrade of a program without an upgrade authority that passes every
\* earlier check, at a later slot than the stored one, has been refused.
C24_Witness ==
  /\ UpgradePassesEarlier
  /\ last.ix.accts[1] \in ImmutableProgramData
  /\ last.clock # UpgradeStoredProgramData.Slot
  /\ last.err = InstrErrImmutable

\* The last instruction failed on a buffer (position 0 of a Write, position 2
\* of an Upgrade) that an earlier Upgrade had consumed.
LaterWrite ==
  /\ last.op = "Write"
  /\ last.ix.accts # << >>
  /\ consumed[last.ix.accts[1]] > 0
  /\ last.ix.Bytes # << >>

LaterUpgrade ==
  /\ last.op = "Upgrade"
  /\ Len(last.ix.accts) >= 3
  /\ consumed[last.ix.accts[3]] > 0
  /\ last.err # InstrOK

\* A Write names its two accounts, the buffer's stored authority is the key of
\* the account at position 1, which signed.
WriteAuthorityValid ==
  /\ Len(last.ix.accts) >= 2
  /\ DecodesAs(last.pre, last.ix.accts[1], UpgradeableLoaderStateTypeBuffer)
  /\ StateOf(last.pre, last.ix.accts[1]).state.Buffer.AuthorityAddress
       = last.pre[last.ix.accts[2]].key
  /\ last.ix.signers[2]

\* A successful Upgrade leaves its buffer with 37 bytes of data and no
\* lamports; no buffer is consumed twice, and a consumed buffer keeps its 37
\* bytes.
BufferConsumedOnce ==
  /\ (last.op = "Upgrade" /\ last.err = InstrOK)
       => /\ Len(accounts[last.ix.accts[3]].data) = upgradeableLoaderSizeOfBufferMetaData
          /\ accounts[last.ix.accts[3]].lamports = 0
  /\ \A a \in TxAccounts :
       /\ consumed[a] <= 1
       /\ consumed[a] > 0
            => Len(accounts[a].data) = upgradeableLoaderSizeOfBufferMetaData

\* C25 as stated: a buffer is consumed by a successful Upgrade (37 bytes, no
\* lamports, never installed twice); EVERY later Upgrade that names it as the
\* buffer fails with InvalidAccountData and EVERY later Write of a non-empty
\* byte slice to it fails with AccountDataTooSmall.
C25_AsStated ==
  /\ BufferConsumedOnce
  /\ (LaterUpgrade /\ UpgradeWellFormed)
       => last.err = InstrErrInvalidAccountData
  /\ (LaterWrite /\ Len(last.ix.accts) >= 2)
       => last.err = InstrErrAccountDataTooSmall

\* C25, amended: a buffer is consumed by a successful Upgrade (37 bytes, no
\* lamports, never installed twice); every later Upgrade that names it as the
\* buffer fails, with InvalidAccountData once the checks that come before the
\* buffer's length pass; every later Write of a non-empty byte slice to it
\* fails, with AccountDataTooSmall once the authority checks pass.
C25_BufferConsumed ==
  /\ BufferConsumedOnce
  /\ (/\ LaterUpgrade
      /\ UpgradeWellFormed
      /\ UpgradeProgramAccountValid
      /\ UpgradeBufferAuthorityValid
      /\ last.ix.signers[7])
       => last.err = InstrErrInvalidAccountData
  /\ LaterWrite => last.err # InstrOK
  /\ (LaterWrite /\ WriteAuthorityValid)
       => last.err = InstrErrAccountDataTooSmall

\* A buffer consumed by an Upgrade has been offered to a second Upgrade that
\* passes the checks of the program account and of the buffer's authority.
C25_Witness ==
  /\ LaterUpgrade
  /\ UpgradeWellFormed
  /\ UpgradeProgramAccountValid
  /\ UpgradeBufferAuthorityValid
  /\ last.ix.signers[7]
  /\ last.err = InstrErrInvalidAccountData

====
